---- MODULE Spec2Model ----
(***************************************************************************)
(* ReleaseCopilot ingestion core: the Jira webhook handler and its issue   *)
(* table, the Bitbucket commit store, and Jira signature verification.     *)
(*                                                                         *)
(* Timestamps (ISO strings in the program, compared by the table as sort   *)
(* keys) are modelled by their rank, an integer; NoTime stands for None.   *)
(* Optional strings use "" for None: the program only tests truthiness.    *)
(***************************************************************************)
EXTENDS Integers, Sequences, FiniteSets, TLC

VARIABLES
    table,      \* DynamoDB issue table: (issue_key, updated_at) -> item
    now,        \* the wall clock read by _now_iso() / datetime.now()
    secretCache,\* handler._SECRET_CACHE
    config,     \* WEBHOOK_SECRET / WEBHOOK_SECRET_ARN of the deployment
    pc,         \* per invocation: position in handler()
    req,        \* per invocation: the inbound request
    expected,   \* per invocation: expected_secret as resolved for the request
    ev,         \* per invocation: the JiraWebhookEvent from normalize_payload
    item,       \* per invocation: the item / update parameters being written
    attempt,    \* per invocation: _execute_with_backoff's attempt counter
    calls,      \* per invocation: the outcome of each call _execute_with_backoff made and the delay slept after it
    result,     \* per invocation: the dict returned by _handle_upsert/_delete
    response,   \* per invocation: statusCode of the response, 0 while running
    stages,     \* per invocation: the steps performed so far, in order
    served,     \* number of requests received so far
    artifacts,  \* correlation artifacts written by recompute_correlation
    history,    \* the writes the table has executed, in the order it did
    commits,    \* bitbucket_commits: the rows of the commit table
    lastBatch,  \* the records the latest scan or webhook gave to upsert_many
    bbSecret,   \* BitbucketWebhookHandler.secret
    bbResponse, \* what BitbucketWebhookHandler.process returned last
    scanArtifact,\* the hashes listed in the artifact of the latest scan
    upserted,   \* the hashes given to upsert_many so far
    delivery,   \* the latest Bitbucket delivery, and whether it repeats the one before
    replaced,   \* the columns in which the latest upsert changed a stored non-null value
    verification,\* a call of verify_signature: its arguments and its result
    evaluation  \* a call of a pure function: its name, its arguments and its value

jiraVars == <<table, now, secretCache, config, pc, req, expected, ev, item, attempt, calls,
              result, response, stages, served, artifacts, history>>

---------------------------------------------------------------------------
(* Bounds of the model *)

MaxClock == 1
MaxRequests == 2
MaxDeliveries == 3
Procs == {"p1", "p2"}

(* Program constants *)

MaxAttempts == 5

NoTime == 0 - 1
NoEvent == [ok |-> FALSE, error |-> ""]
NoItem == [op |-> "none"]
NoResult == [success |-> FALSE, status |-> 0]

ALLOWED_EVENTS == {"jira:issue_created", "jira:issue_updated", "jira:issue_deleted"}

\* Outcomes of one call to the table: it answers ("ok"), or raises a
\* ClientError whose code is in _RETRYABLE_ERRORS, or raises one whose code
\* is not.
StoreFaults == {"transient", "permanent"}

---------------------------------------------------------------------------
(* The issue table *)

KeyOf(it) == <<it.issue_key, it.updated_at>>

\* A put_item without the ConditionExpression: nothing to fail.
ConditionOmitted(t, it) == TRUE

\* ConditionExpression of _put_item_with_retry:
\* attribute_not_exists(idempotency_key) OR idempotency_key = :id
ConditionHolds(t, it) ==
    \/ KeyOf(it) \notin DOMAIN t
    \/ t[KeyOf(it)].idempotency_key = ""
    \/ t[KeyOf(it)].idempotency_key = it.idempotency_key

\* Table.put_item without a ConditionExpression: always replaces the item.
PutItemUnconditional(t, it) ==
    [k \in DOMAIN t \cup {KeyOf(it)} |-> IF k = KeyOf(it) THEN it ELSE t[k]]

\* Table.put_item with the condition: replaces the whole item or raises
\* ConditionalCheckFailedException, which _execute_with_backoff swallows.
PutItem(t, it) ==
    IF ConditionHolds(t, it)
    THEN [k \in DOMAIN t \cup {KeyOf(it)} |-> IF k = KeyOf(it) THEN it ELSE t[k]]
    ELSE t

\* Table.update_item as _mark_tombstone calls it: no ConditionExpression;
\* SET on four attributes, creating the item when the key is absent.
UpdateItem(t, key, upd) ==
    LET old == IF key \in DOMAIN t
               THEN t[key]
               ELSE [issue_key |-> key[1], updated_at |-> key[2], status |-> ""]
        new == [issue_key |-> old.issue_key,
                updated_at |-> old.updated_at,
                status |-> old.status,
                deleted |-> upd.deleted,
                last_event_type |-> upd.last_event_type,
                received_at |-> upd.received_at,
                idempotency_key |-> upd.idempotency_key]
    IN [k \in DOMAIN t \cup {key} |-> IF k = key THEN new ELSE t[k]]

RowsOf(t, issue_key) == {k \in DOMAIN t : k[1] = issue_key}

\* The query with ScanIndexForward=True: the oldest row of the issue.
FetchOldest(t, issue_key) ==
    IF RowsOf(t, issue_key) = {}
    THEN << >>
    ELSE LET k == CHOOSE k \in RowsOf(t, issue_key) :
                      \A j \in RowsOf(t, issue_key) : k[2] <= j[2]
         IN <<t[k]>>

\* _fetch_latest_issue_item: query by issue_key, ScanIndexForward=False, Limit=1
FetchLatest(t, issue_key) ==
    IF RowsOf(t, issue_key) = {}
    THEN << >>
    ELSE LET k == CHOOSE k \in RowsOf(t, issue_key) :
                      \A j \in RowsOf(t, issue_key) : j[2] <= k[2]
         IN <<t[k]>>

---------------------------------------------------------------------------
(* Payloads and normalisation *)

\* _now_iso(): phoenix_now().isoformat(timespec="seconds")
NowIso(clock) == clock

\* A timestamp text that none of _parse_timestamp's formats parses, such as
\* "yesterday": it is returned as it is (webhook_parser.py 28-31).  As a
\* string it sorts after every ISO timestamp.
Unparsed == 9

\* webhook_parser._parse_timestamp
ParseTimestamp(value, clock) == IF value = NoTime THEN clock ELSE value

\* First truthy of the four delivery identifiers the payload may carry.
RECURSIVE FirstId(_)
FirstId(ids) ==
    IF ids = << >> THEN ""
    ELSE IF Head(ids) # "" THEN Head(ids)
    ELSE FirstId(Tail(ids))

\* webhook_parser.normalize_payload
NormalizePayload(payload, clock) ==
    IF payload.webhookEvent = "" THEN [ok |-> FALSE, error |-> "Missing webhookEvent"]
    ELSE IF ~payload.hasIssue THEN [ok |-> FALSE, error |-> "Missing issue payload"]
    ELSE IF payload.key = "" THEN [ok |-> FALSE, error |-> "Missing issue key"]
    ELSE LET updated_source ==
                 IF payload.updated # NoTime THEN payload.updated
                 ELSE IF payload.created # NoTime THEN payload.created
                 ELSE IF payload.timestamp # NoTime THEN payload.timestamp
                 ELSE clock
         IN [ok |-> TRUE,
             event_type |-> payload.webhookEvent,
             issue_key |-> payload.key,
             updated_at |-> ParseTimestamp(updated_source, clock),
             status |-> payload.status,
             changelog_id |-> payload.changelogId,
             delivery_id |-> FirstId(payload.ids),
             timestamp |-> IF payload.timestamp # NoTime
                           THEN ParseTimestamp(payload.timestamp, clock)
                           ELSE NoTime,
             payload |-> payload]

\* The changelog id taken before the delivery id.
ComputeIdempotencyKeyChangelogFirst(event, issue_key, updated_at) ==
    IF event.changelog_id # "" THEN event.changelog_id
    ELSE IF FirstId(event.payload.ids) # "" THEN FirstId(event.payload.ids)
    ELSE IF event.payload.timestamp # NoTime
         THEN issue_key \o ":" \o ToString(event.payload.timestamp)
    ELSE issue_key \o ":" \o ToString(updated_at) \o ":" \o event.event_type

\* handler._compute_idempotency_key
ComputeIdempotencyKey(event, issue_key, updated_at) ==
    IF FirstId(event.payload.ids) # "" THEN FirstId(event.payload.ids)
    ELSE IF event.changelog_id # "" THEN event.changelog_id
    ELSE IF event.payload.timestamp # NoTime
         THEN issue_key \o ":" \o ToString(event.payload.timestamp)
    ELSE issue_key \o ":" \o ToString(updated_at) \o ":" \o event.event_type

\* The item _handle_upsert builds (lines 185-213).  status stands for the
\* attributes copied from the payload's fields.
UpsertItem(event, clock) ==
    LET updated_at == IF event.updated_at # NoTime THEN event.updated_at ELSE NowIso(clock)
    IN [op |-> "put",
        issue_key |-> event.issue_key,
        updated_at |-> updated_at,
        status |-> IF event.status # "" THEN event.status ELSE "UNKNOWN",
        deleted |-> FALSE,
        last_event_type |-> event.event_type,
        received_at |-> NowIso(clock),
        idempotency_key |-> ComputeIdempotencyKey(event, event.issue_key, updated_at)]

\* updated_at of _handle_delete (line 242): event.timestamp or _now_iso()
DeleteTimestamp(event, clock) ==
    IF event.timestamp # NoTime THEN event.timestamp ELSE NowIso(clock)

\* What _mark_tombstone writes once it has read `latest` (lines 278-318):
\* an in-place update of the latest row, or the put of a new tombstone.
TombstoneWrite(event, latest, clock) ==
    LET updated_at == DeleteTimestamp(event, clock)
        idempotency_key == ComputeIdempotencyKey(event, event.issue_key, updated_at)
    IN IF latest # << >>
       THEN [op |-> "update",
             issue_key |-> event.issue_key,
             updated_at |-> latest[1].updated_at,
             deleted |-> TRUE,
             last_event_type |-> event.event_type,
             received_at |-> NowIso(clock),
             idempotency_key |-> idempotency_key]
       ELSE [op |-> "put",
             issue_key |-> event.issue_key,
             updated_at |-> updated_at,
             status |-> IF event.status # "" THEN event.status ELSE "UNKNOWN",
             deleted |-> TRUE,
             last_event_type |-> event.event_type,
             received_at |-> NowIso(clock),
             idempotency_key |-> idempotency_key]

\* The item as stored: the write parameters without the model's op tag.
Stored(w) ==
    [issue_key |-> w.issue_key, updated_at |-> w.updated_at, status |-> w.status,
     deleted |-> w.deleted, last_event_type |-> w.last_event_type,
     received_at |-> w.received_at, idempotency_key |-> w.idempotency_key]

\* The table after the store has executed write w.
Execute(t, w) ==
    IF w.op = "put" THEN PutItem(t, Stored(w))
    ELSE UpdateItem(t, <<w.issue_key, w.updated_at>>, w)

---------------------------------------------------------------------------
(* Jira signature verification (releasecopilot/jira/signature.py).         *)
(* Header values are sequences of one-character strings, digests are       *)
(* sequences of bytes.                                                     *)

DigestLen == 32

B64Alphabet ==
    <<"A","B","C","D","E","F","G","H","I","J","K","L","M","N","O","P",
      "Q","R","S","T","U","V","W","X","Y","Z","a","b","c","d","e","f",
      "g","h","i","j","k","l","m","n","o","p","q","r","s","t","u","v",
      "w","x","y","z","0","1","2","3","4","5","6","7","8","9","+","/">>

B64Chars == {B64Alphabet[i] : i \in 1..64}

B64Val(c) == (CHOOSE i \in 1..64 : B64Alphabet[i] = c) - 1

HexLower == <<"0","1","2","3","4","5","6","7","8","9","a","b","c","d","e","f">>
HexUpper == <<"0","1","2","3","4","5","6","7","8","9","A","B","C","D","E","F">>

HexChars == {HexLower[i] : i \in 1..16} \cup {HexUpper[i] : i \in 1..16}

HexVal(c) == (CHOOSE i \in 1..16 : HexLower[i] = c \/ HexUpper[i] = c) - 1

Whitespace == {" "}

\* hmac.new(secret, body, hashlib.sha256).digest(): a fixed 32-byte function
\* of the secret and the body, different for different (secret, body).
SecretCode(secret) == IF secret = "topsecret" THEN 1 ELSE IF secret = "another" THEN 2 ELSE 3

HmacDigest(secret, body) ==
    [i \in 1..DigestLen |-> (SecretCode(secret) * 97 + body * 31 + i * 7) % 256]

\* base64.b64encode
B64Encode(bytes) ==
    LET n == Len(bytes)
        nsext == (8 * n + 5) \div 6
        byteAt(i) == IF i <= n THEN bytes[i] ELSE 0
        sextet(j) == LET idx == (6 * j) \div 8
                         off == (6 * j) % 8
                         v == byteAt(idx + 1) * 256 + byteAt(idx + 2)
                     IN (v \div (2 ^ (10 - off))) % 64
        total == 4 * ((nsext + 3) \div 4)
    IN [j \in 1..total |-> IF j <= nsext THEN B64Alphabet[sextet(j - 1) + 1] ELSE "="]

\* bytes.hex() / hexdigest()
HexEncode(bytes) ==
    [j \in 1..(2 * Len(bytes)) |->
        LET b == bytes[(j + 1) \div 2]
        IN IF j % 2 = 1 THEN HexLower[(b \div 16) + 1] ELSE HexLower[(b % 16) + 1]]

\* str.strip()
RECURSIVE StripLeft(_)
StripLeft(s) ==
    IF s # << >> /\ Head(s) \in Whitespace THEN StripLeft(Tail(s)) ELSE s

RECURSIVE StripRight(_)
StripRight(s) ==
    IF s # << >> /\ s[Len(s)] \in Whitespace
    THEN StripRight(SubSeq(s, 1, Len(s) - 1))
    ELSE s

Strip(s) == StripRight(StripLeft(s))

\* Number of "=" at the end of s.
RECURSIVE TrailingPads(_)
TrailingPads(s) ==
    IF s # << >> /\ s[Len(s)] = "="
    THEN 1 + TrailingPads(SubSeq(s, 1, Len(s) - 1))
    ELSE 0

\* base64.b64decode(candidate, validate=True): alphabet characters followed
\* only by "=" padding; a partial quad needs exactly its padding; a lone data
\* character is an error; the unused trailing bits of a quad are dropped.
B64Decode(s) ==
    LET n == Len(s)
        pads == TrailingPads(s)
        m == n - pads
        valid == /\ m >= 1
                 /\ \A i \in 1..m : s[i] \in B64Chars
                 /\ \/ m % 4 = 0
                    \/ m % 4 = 2 /\ pads = 2
                    \/ m % 4 = 3 /\ pads = 1
        nbytes == (6 * m) \div 8
        byte(k) == LET idx == (8 * k) \div 6
                       off == (8 * k) % 6
                       v == B64Val(s[idx + 1]) * 64 + B64Val(s[idx + 2])
                   IN (v \div (2 ^ (4 - off))) % 256
    IN IF valid
       THEN [ok |-> TRUE, bytes |-> [k \in 1..nbytes |-> byte(k - 1)]]
       ELSE [ok |-> FALSE, bytes |-> << >>]

\* bytes.fromhex: pairs of adjacent hex digits, whitespace around the pairs
\* skipped.
HexDecode(s) ==
    LET digits == {i \in 1..Len(s) : s[i] \notin Whitespace}
        nth(j) == CHOOSE i \in digits : Cardinality({k \in digits : k < i}) = j - 1
        nbytes == Cardinality(digits) \div 2
        valid == /\ Cardinality(digits) % 2 = 0
                 /\ \A i \in digits : s[i] \in HexChars
                 /\ \A k \in 1..nbytes : nth(2 * k) = nth(2 * k - 1) + 1
    IN IF valid
       THEN [ok |-> TRUE,
             bytes |-> [k \in 1..nbytes |->
                          HexVal(s[nth(2 * k - 1)]) * 16 + HexVal(s[nth(2 * k)])]]
       ELSE [ok |-> FALSE, bytes |-> << >>]

\* signature._decode_signature: base64 first, hex only when base64 fails.
DecodeSignature(value) ==
    LET candidate == Strip(value)
    IN IF candidate = << >> THEN [ok |-> FALSE, bytes |-> << >>]
       ELSE LET decoded == B64Decode(candidate)
            IN IF decoded.ok THEN decoded ELSE HexDecode(candidate)

\* signature.verify_signature; a missing header (None) is the empty sequence.
VerifySignature(secret, body, signature) ==
    IF secret = "" \/ signature = << >> THEN FALSE
    ELSE LET provided == DecodeSignature(signature)
         IN IF ~provided.ok THEN FALSE
            ELSE provided.bytes = HmacDigest(secret, body)

---------------------------------------------------------------------------
(* Inbound requests *)

Payload(evt, key, updated, timestamp, ids, changelogId, status) ==
    [webhookEvent |-> evt, hasIssue |-> TRUE, key |-> key, updated |-> updated,
     created |-> NoTime, timestamp |-> timestamp, ids |-> ids,
     changelogId |-> changelogId, status |-> status]

\* The request bodies the model draws from.  json = FALSE is a body that is
\* not JSON, mapping = FALSE a JSON body that is not an object (the number
\* 5); the others carry the payload shown.
Bodies ==
    << [json |-> TRUE, mapping |-> TRUE, payload |->
          Payload("jira:issue_updated", "A-1", 1, NoTime, <<"d1", "", "", "">>, "", "todo")],
       [json |-> TRUE, mapping |-> TRUE, payload |->
          Payload("jira:issue_updated", "A-1", 1, NoTime, <<"", "", "d2", "">>, "", "done")],
       [json |-> TRUE, mapping |-> TRUE, payload |->
          Payload("jira:issue_deleted", "A-1", 1, 2, <<"d3", "", "", "">>, "", "todo")],
       [json |-> TRUE, mapping |-> TRUE, payload |->
          Payload("jira:issue_deleted", "A-1", NoTime, NoTime, <<"", "d2", "", "">>, "", "")],
       [json |-> TRUE, mapping |-> TRUE, payload |->
          Payload("jira:issue_created", "A-1", NoTime, NoTime, <<"", "", "", "">>, "", "todo")],
       [json |-> TRUE, mapping |-> TRUE, payload |->
          Payload("jira:issue_updated", "B-2", 2, 2, <<"", "", "", "">>, "c9", "done")],
       [json |-> TRUE, mapping |-> TRUE, payload |->
          Payload("comment_created", "A-1", 1, 1, <<"d4", "", "", "">>, "", "todo")],
       [json |-> TRUE, mapping |-> TRUE, payload |->
          [Payload("jira:issue_updated", "", 1, 1, <<"d5", "", "", "">>, "", "todo")
              EXCEPT !.hasIssue = FALSE]],
       [json |-> FALSE, mapping |-> FALSE, payload |->
          Payload("", "", NoTime, NoTime, <<"", "", "", "">>, "", "")],
       [json |-> TRUE, mapping |-> FALSE, payload |->
          Payload("", "", NoTime, NoTime, <<"", "", "", "">>, "", "")],
       [json |-> TRUE, mapping |-> TRUE, payload |->
          Payload("jira:issue_updated", "A-1", Unparsed, NoTime, <<"d6", "", "", "">>, "", "todo")],
       [json |-> TRUE, mapping |-> TRUE, payload |->
          Payload("jira:issue_updated", "A-1", Unparsed, NoTime, <<"", "", "", "d7">>, "", "done")] >>

Routes == {"lambda", "fastapi", "flask"}

\* What the sender put in X-Atlassian-Webhook-Signature.
SigKinds == {"b64", "hex", "forged", "garbage", "none"}

SenderSecret == "topsecret"

SignatureHeader(kind, body) ==
    CASE kind = "b64" -> B64Encode(HmacDigest(SenderSecret, body))
      [] kind = "hex" -> HexEncode(HmacDigest(SenderSecret, body))
      [] kind = "forged" -> B64Encode(HmacDigest("another", body))
      [] kind = "garbage" -> <<"i", "n", "v", "a", "l", "i", "d">>
      [] OTHER -> << >>

\* The traffic of the handler model: the Lambda handler gets every kind of
\* body with a valid signature and one body with each other signature; the
\* framework routes get a few of them.
Requests ==
    {[route |-> "lambda", body |-> b, sig |-> "b64"] : b \in {1, 3, 4, 7, 8, 9}}
    \cup {[route |-> "lambda", body |-> 1, sig |-> k] : k \in SigKinds}
    \cup {[route |-> "fastapi", body |-> b, sig |-> "b64"] : b \in {1, 7, 9}}
    \cup {[route |-> "flask", body |-> b, sig |-> "b64"] : b \in {3, 7, 9}}
    \cup {[route |-> r, body |-> 1, sig |-> "none"] : r \in {"fastapi", "flask"}}

\* The traffic of the store model: signed deliveries of issue events to the
\* Lambda handler.
Deliveries == {[route |-> "lambda", body |-> b, sig |-> "b64"] : b \in {1, 2, 3, 5, 6}}

\* The deliveries that race: two updates of one row and a delete.
RaceDeliveries == {[route |-> "lambda", body |-> b, sig |-> "b64"] : b \in 1..3}

\* The traffic of the answers model: requests of every outcome, among them
\* a JSON number and updates whose fields.updated is not a timestamp.
AnswerRequests ==
    {[route |-> "lambda", body |-> b, sig |-> "b64"] : b \in {1, 2, 3, 8, 9, 10, 11, 12}}
    \cup {[route |-> "lambda", body |-> 1, sig |-> "forged"]}
    \cup {[route |-> "fastapi", body |-> b, sig |-> "b64"] : b \in {9, 11}}
    \cup {[route |-> "flask", body |-> 10, sig |-> "b64"]}

NoRequest == [route |-> "", body |-> 0, sig |-> "none"]

\* Deployments: WEBHOOK_SECRET set, WEBHOOK_SECRET_ARN set, or neither.
Configs ==
    {[secret |-> "", arn |-> FALSE],
     [secret |-> SenderSecret, arn |-> FALSE],
     [secret |-> "", arn |-> TRUE]}

\* get_secret_value: raises ClientError, or returns an empty or a non-empty
\* SecretString.
SecretOutcomes == {"error", "", SenderSecret}

\* handler._resolve_secret (lines 140-156): the secret and the new cache.
ResolveSecret(cfg, cache, outcome) ==
    IF cfg.secret # "" THEN [secret |-> cfg.secret, cache |-> cache]
    ELSE IF ~cfg.arn THEN [secret |-> "", cache |-> cache]
    ELSE IF cache # "" THEN [secret |-> cache, cache |-> cache]
    ELSE IF outcome = "error" THEN [secret |-> "", cache |-> cache]
    ELSE [secret |-> outcome, cache |-> outcome]

\* services/webhooks/jira.py _resolve_secret: the credential store's value.
RouteSecret(cfg) == IF cfg.secret # "" THEN cfg.secret ELSE ""

---------------------------------------------------------------------------
(* The handler, one action per step of handler() and its callees *)

JiraInit ==
    /\ table = << >>
    /\ now = 0
    /\ secretCache = ""
    /\ config \in Configs
    /\ pc = [p \in Procs |-> "idle"]
    /\ req = [p \in Procs |-> NoRequest]
    /\ expected = [p \in Procs |-> ""]
    /\ ev = [p \in Procs |-> NoEvent]
    /\ item = [p \in Procs |-> NoItem]
    /\ attempt = [p \in Procs |-> 1]
    /\ calls = [p \in Procs |-> << >>]
    /\ result = [p \in Procs |-> NoResult]
    /\ response = [p \in Procs |-> 0]
    /\ stages = [p \in Procs |-> << >>]
    /\ served = 0
    /\ artifacts = {}
    /\ history = << >>

\* API Gateway / the framework hands a POST to the handler.
Receive(p, inbound, limit) ==
    /\ pc[p] = "idle"
    /\ served < limit
    /\ \E r \in inbound : req' = [req EXCEPT ![p] = r]
    /\ pc' = [pc EXCEPT ![p] = "auth"]
    /\ served' = served + 1
    /\ UNCHANGED <<table, now, secretCache, config, expected, ev, item, attempt, calls,
                   result, response, stages, artifacts, history>>

\* The invocation has returned its response; its locals are gone.
Return(p) ==
    /\ pc[p] = "done"
    /\ pc' = [pc EXCEPT ![p] = "idle"]
    /\ req' = [req EXCEPT ![p] = NoRequest]
    /\ expected' = [expected EXCEPT ![p] = ""]
    /\ ev' = [ev EXCEPT ![p] = NoEvent]
    /\ item' = [item EXCEPT ![p] = NoItem]
    /\ attempt' = [attempt EXCEPT ![p] = 1]
    /\ calls' = [calls EXCEPT ![p] = << >>]
    /\ result' = [result EXCEPT ![p] = NoResult]
    /\ response' = [response EXCEPT ![p] = 0]
    /\ stages' = [stages EXCEPT ![p] = << >>]
    /\ UNCHANGED <<table, now, secretCache, config, served, artifacts, history>>

\* The request is answered: the invocation ends with this status.
Answer(p, status) ==
    /\ response' = [response EXCEPT ![p] = status]
    /\ pc' = [pc EXCEPT ![p] = "done"]

\* No check at all.
AuthenticatedAlways(secret, r) == TRUE

\* A check that only looks for the header.
AuthenticatedHeaderPresent(secret, r) == secret = "" \/ r.sig # "none"

\* Whether the request passes the signature check given the resolved secret
\* (handler lines 62-66; jira.py lines 58-61 and 106-111).
Authenticated(secret, r) ==
    secret = "" \/ VerifySignature(secret, r.body, SignatureHeader(r.sig, r.body))

\* handler lines 59-66: resolve the secret, verify the signature.
Authenticate(p) ==
    /\ pc[p] = "auth"
    /\ \E outcome \in SecretOutcomes :
         LET res == IF req[p].route = "lambda"
                    THEN ResolveSecret(config, secretCache, outcome)
                    ELSE [secret |-> RouteSecret(config), cache |-> secretCache]
         IN /\ secretCache' = res.cache
            /\ expected' = [expected EXCEPT ![p] = res.secret]
            /\ IF Authenticated(res.secret, req[p])
               THEN /\ pc' = [pc EXCEPT ![p] = "parse"]
                    /\ UNCHANGED response
               ELSE Answer(p, 401)
    /\ stages' = [stages EXCEPT ![p] = Append(@, "authenticate")]
    /\ UNCHANGED <<table, now, config, req, ev, item, attempt, calls, result, served, artifacts, history>>

\* An exception nothing catches: the Lambda invocation ends in an error
\* without a response of the handler (0); FastAPI and Flask answer 500.
UnhandledStatus(route) == IF route = "lambda" THEN 0 ELSE 500

\* The status with which the route answers a body that is not JSON:
\* _parse_body raises ValueError (400); request.json() raises (500);
\* get_json(silent=True) or {} then fails normalisation (400).
BadJsonStatus(route) == IF route = "fastapi" THEN 500 ELSE 400

\* handler lines 68-83: parse the body, normalise, filter the event type.
\* A JSON body that is a number makes dict(event) in normalize_payload
\* raise TypeError, which no route catches.
Parse(p) ==
    /\ pc[p] = "parse"
    /\ LET body == Bodies[req[p].body]
           event == NormalizePayload(body.payload, now)
       IN IF ~body.json
          THEN Answer(p, BadJsonStatus(req[p].route)) /\ UNCHANGED ev
          ELSE IF ~body.mapping
          THEN Answer(p, UnhandledStatus(req[p].route)) /\ UNCHANGED ev
          ELSE IF ~event.ok
          THEN Answer(p, 400) /\ UNCHANGED ev
          ELSE IF req[p].route = "lambda" /\ event.event_type \notin ALLOWED_EVENTS
          THEN Answer(p, 202) /\ UNCHANGED ev
          ELSE /\ ev' = [ev EXCEPT ![p] = event]
               /\ pc' = [pc EXCEPT ![p] = "apply"]
               /\ UNCHANGED response
    /\ stages' = [stages EXCEPT ![p] = Append(@, "parse")]
    /\ UNCHANGED <<table, now, secretCache, config, req, expected, item, attempt, calls,
                   result, served, artifacts, history>>

\* handler lines 85-88 with the head of _handle_upsert (178-213) or of
\* _handle_delete (236-243): build the item, or go and query the latest row.
BeginApply(p) ==
    /\ pc[p] = "apply"
    /\ IF ev[p].issue_key = ""
       THEN /\ result' = [result EXCEPT ![p] = [success |-> FALSE, status |-> 400]]
            /\ pc' = [pc EXCEPT ![p] = "finish"]
            /\ UNCHANGED item
       ELSE IF ev[p].event_type = "jira:issue_deleted"
       THEN /\ pc' = [pc EXCEPT ![p] = "query"]
            /\ UNCHANGED <<item, result>>
       ELSE /\ item' = [item EXCEPT ![p] = UpsertItem(ev[p], now)]
            /\ pc' = [pc EXCEPT ![p] = "write"]
            /\ UNCHANGED result
    /\ attempt' = [attempt EXCEPT ![p] = 1]
    /\ calls' = [calls EXCEPT ![p] = << >>]
    /\ stages' = [stages EXCEPT ![p] = Append(@, "apply")]
    /\ UNCHANGED <<table, now, secretCache, config, req, expected, ev, response,
                   served, artifacts, history>>

\* _mark_tombstone lines 277-292/296-317: one query, outside the retry loop;
\* any ClientError it raises fails the delete (handler lines 247-252).
QueryLatest(p, faults) ==
    /\ pc[p] = "query"
    /\ \E outcome \in {"ok"} \cup faults :
         IF outcome = "ok"
         THEN /\ item' = [item EXCEPT ![p] =
                              TombstoneWrite(ev[p], FetchLatest(table, ev[p].issue_key), now)]
              /\ pc' = [pc EXCEPT ![p] = "write"]
              /\ UNCHANGED result
         ELSE /\ result' = [result EXCEPT ![p] = [success |-> FALSE, status |-> 500]]
              /\ pc' = [pc EXCEPT ![p] = "finish"]
              /\ UNCHANGED item
    /\ UNCHANGED <<table, now, secretCache, config, req, expected, ev, attempt, calls,
                   response, stages, served, artifacts, history>>

\* A delay that grows by one unit per attempt.
BackoffDelayLinear(n) == n

\* _execute_with_backoff line 373: delay = base_delay * 2 ** (attempt - 1),
\* in units of base_delay (a call that is not followed by a sleep logs 0).
BackoffDelay(n) == 2 ^ (n - 1)

\* One pass of _execute_with_backoff's loop (lines 359-379) around put_item
\* or update_item.
WriteAttempt(p, faults) ==
    /\ pc[p] = "write"
    /\ \E outcome \in {"ok"} \cup faults :
         IF outcome = "ok"
         THEN /\ table' = Execute(table, item[p])
              /\ history' = Append(history, [write |-> item[p],
                                             body |-> req[p].body,
                                             committed |-> Execute(table, item[p]) # table])
              /\ result' = [result EXCEPT ![p] = [success |-> TRUE, status |-> 202]]
              /\ pc' = [pc EXCEPT ![p] = "finish"]
              /\ calls' = [calls EXCEPT ![p] = Append(@, [outcome |-> outcome, slept |-> 0])]
              /\ UNCHANGED attempt
         ELSE IF outcome = "transient" /\ attempt[p] < MaxAttempts
         THEN /\ calls' = [calls EXCEPT ![p] =
                              Append(@, [outcome |-> outcome,
                                         slept |-> BackoffDelay(attempt[p])])]
              /\ attempt' = [attempt EXCEPT ![p] = @ + 1]
              /\ UNCHANGED <<table, history, result, pc>>
         ELSE /\ result' = [result EXCEPT ![p] = [success |-> FALSE, status |-> 500]]
              /\ pc' = [pc EXCEPT ![p] = "finish"]
              /\ calls' = [calls EXCEPT ![p] = Append(@, [outcome |-> outcome, slept |-> 0])]
              /\ UNCHANGED <<table, history, attempt>>
    /\ UNCHANGED <<now, secretCache, config, req, expected, ev, item, response,
                   stages, served, artifacts>>

\* JiraWebhookEvent.phoenix_timestamp (webhook_parser.py 56-60), read by
\* recompute_correlation for every event (sync.py 71): fromisoformat raises
\* ValueError on an updated_at that is not an ISO timestamp.
PhoenixTimestampRaises(event) == event.updated_at = Unparsed

\* handler lines 90-92: recompute_correlation after a successful apply; the
\* artifact is named by the second and the touched issue key.  Nothing
\* catches an exception of recompute_correlation.
Recorrelate(p) ==
    /\ pc[p] = "finish"
    /\ result[p].success
    /\ IF PhoenixTimestampRaises(ev[p])
       THEN /\ Answer(p, UnhandledStatus(req[p].route))
            /\ UNCHANGED artifacts
       ELSE /\ artifacts' = artifacts \cup {<<NowIso(now), ev[p].issue_key>>}
            /\ pc' = [pc EXCEPT ![p] = "respond"]
            /\ UNCHANGED response
    /\ stages' = [stages EXCEPT ![p] = Append(@, "recorrelate")]
    /\ UNCHANGED <<table, now, secretCache, config, req, expected, ev, item, attempt, calls,
                   result, served, history>>

\* handler lines 94-103; jira.py lines 92 and 143: 202 on success, else the
\* result's status on Lambda and 500 on the framework routes.
Respond(p) ==
    /\ \/ pc[p] = "respond"
       \/ pc[p] = "finish" /\ ~result[p].success
    /\ Answer(p, IF result[p].success THEN 202
                 ELSE IF req[p].route = "lambda" THEN result[p].status
                 ELSE 500)
    /\ UNCHANGED <<table, now, secretCache, config, req, expected, ev, item, attempt, calls,
                   result, stages, served, artifacts, history>>

\* Time passes.
Tick ==
    /\ now < MaxClock
    /\ now' = now + 1
    /\ UNCHANGED <<table, secretCache, config, pc, req, expected, ev, item, attempt, calls,
                   result, response, stages, served, artifacts, history>>

\* The handler's steps for invocation p, after the request is received,
\* against a table that may raise the given faults.
Step(p, faults) ==
    \/ Authenticate(p)
    \/ Parse(p)
    \/ BeginApply(p)
    \/ QueryLatest(p, faults)
    \/ WriteAttempt(p, faults)
    \/ Recorrelate(p)
    \/ Respond(p)
    \/ Return(p)

(* Bitbucket commit ingestion (releasecopilot/ingest): the commit table,   *)
(* the scanner and the webhook handler. Texts are strings; Chars spells    *)
(* the texts that carry story keys.                                        *)

\* None in Python, NULL in a column of the commit table.
Null == "<null>"

Chars(text) ==
    CASE text = "a-1 rc-1 RC-1" ->
             <<"a","-","1"," ","r","c","-","1"," ","R","C","-","1">>
      [] text = "rc-1 fix" -> <<"r","c","-","1"," ","f","i","x">>
      [] text = "rc-2" -> <<"r","c","-","2">>
      [] text = "rc-3" -> <<"r","c","-","3">>
      [] text = "main" -> <<"m","a","i","n">>
      [] OTHER -> << >>

LowerLetters ==
    <<"a","b","c","d","e","f","g","h","i","j","k","l","m",
      "n","o","p","q","r","s","t","u","v","w","x","y","z">>

UpperLetters ==
    <<"A","B","C","D","E","F","G","H","I","J","K","L","M",
      "N","O","P","Q","R","S","T","U","V","W","X","Y","Z">>

Digits == {"0","1","2","3","4","5","6","7","8","9"}

\* str.upper
Upper(s) ==
    [i \in 1..Len(s) |->
        IF \E k \in 1..26 : LowerLetters[k] = s[i]
        THEN UpperLetters[CHOOSE k \in 1..26 : LowerLetters[k] = s[i]]
        ELSE s[i]]

\* Last index of the run of characters of S that starts at i; i - 1 if empty.
RECURSIVE RunEnd(_, _, _)
RunEnd(s, i, S) ==
    IF i <= Len(s) /\ s[i] \in S THEN RunEnd(s, i + 1, S) ELSE i - 1

\* STORY_KEY_RE = [A-Z][A-Z0-9]+-\d+ matched at position i: the index of the
\* last character of the match, 0 if there is none.
StoryKeyMatchEnd(s, i) ==
    LET letters == {UpperLetters[k] : k \in 1..26}
    IN IF i > Len(s) \/ s[i] \notin letters THEN 0
       ELSE LET a == RunEnd(s, i + 1, letters \cup Digits)
            IN IF a < i + 1 \/ a + 1 > Len(s) \/ s[a + 1] # "-" THEN 0
               ELSE LET d == RunEnd(s, a + 2, Digits)
                    IN IF d < a + 2 THEN 0 ELSE d

RECURSIVE Join(_)
Join(s) == IF s = << >> THEN "" ELSE Head(s) \o Join(Tail(s))

\* STORY_KEY_RE.findall: the matches from left to right, not overlapping.
RECURSIVE FindAll(_, _)
FindAll(s, i) ==
    IF i > Len(s) THEN << >>
    ELSE LET e == StoryKeyMatchEnd(s, i)
         IN IF e = 0 THEN FindAll(s, i + 1)
            ELSE <<Join(SubSeq(s, i, e))>> \o FindAll(s, e + 1)

\* list(dict.fromkeys(seq)): the first occurrence of each element, in order.
RECURSIVE Dedup(_)
Dedup(s) ==
    IF s = << >> THEN << >>
    ELSE LET front == Dedup(SubSeq(s, 1, Len(s) - 1))
             last == s[Len(s)]
         IN IF \E i \in 1..Len(front) : front[i] = last
            THEN front ELSE Append(front, last)

\* bitbucket_webhooks.extract_story_keys: message, then branch, then title.
ExtractStoryKeys(message, branch, pr_title) ==
    LET keysOf(source) == IF source = Null \/ source = "" THEN << >>
                          ELSE FindAll(Upper(Chars(source)), 1)
    IN Dedup(keysOf(message) \o keysOf(branch) \o keysOf(pr_title))

\* The incoming value whatever it is: SET x = excluded.x.
TakeExcluded(incoming, existing) == incoming

\* The arguments the other way round: COALESCE(bitbucket_commits.x, excluded.x).
CoalesceStoredFirst(incoming, existing) == IF existing # Null THEN existing ELSE incoming

\* COALESCE(excluded.x, bitbucket_commits.x)
Coalesce(incoming, existing) == IF incoming # Null THEN incoming ELSE existing

\* A plain INSERT into a table without the key on hash.
InsertOne(rows, record, observed) ==
    rows \cup {[hash |-> record.hash,
                repository |-> record.repository,
                authorship |-> record.authorship,
                files_changed |-> Dedup(record.files_changed),
                story_keys |-> Dedup(record.story_keys),
                source |-> record.source,
                branch |-> record.branch,
                modified_on |-> record.modified_on,
                last_seen_at |-> observed]}

\* One execution of the INSERT ... ON CONFLICT(hash) DO UPDATE statement.
UpsertOne(rows, record, observed) ==
    LET payload == [hash |-> record.hash,
                    repository |-> record.repository,
                    authorship |-> record.authorship,
                    files_changed |-> Dedup(record.files_changed),
                    story_keys |-> Dedup(record.story_keys),
                    source |-> record.source,
                    branch |-> record.branch,
                    modified_on |-> record.modified_on,
                    last_seen_at |-> observed]
        conflict == {r \in rows : r.hash = record.hash}
    IN IF conflict = {} THEN rows \cup {payload}
       ELSE (rows \ conflict) \cup
            {[payload EXCEPT !.branch = Coalesce(payload.branch, r.branch),
                             !.modified_on = Coalesce(payload.modified_on, r.modified_on)]
             : r \in conflict}

\* CommitStorage.upsert_many: executemany over the records, one transaction.
RECURSIVE UpsertMany(_, _, _)
UpsertMany(rows, records, observed) ==
    IF records = << >> THEN rows
    ELSE UpsertMany(UpsertOne(rows, Head(records), observed), Tail(records), observed)

HashesOf(records) == {records[i].hash : i \in 1..Len(records)}

\* The repository the scanner is pointed at and the webhooks come from.
Repository == "team/repo"

\* bitbucket_scanner.scan_commits over what client.iter_commits yields.
RECURSIVE ScanCommits(_, _)
ScanCommits(feed, seen_hashes) ==
    IF feed = << >> THEN << >>
    ELSE LET commit == Head(feed)
         IN IF commit.hash = Null \/ commit.hash \in seen_hashes
            THEN ScanCommits(Tail(feed), seen_hashes)
            ELSE <<[hash |-> commit.hash,
                    repository |-> Repository,
                    authorship |-> commit.author,
                    files_changed |-> Dedup(commit.files),
                    story_keys |-> << >>,
                    source |-> "scan",
                    branch |-> commit.branch,
                    modified_on |-> commit.date]>>
                 \o ScanCommits(Tail(feed), seen_hashes \cup {commit.hash})

SUPPORTED_EVENTS ==
    {"repo:push", "pullrequest:created", "pullrequest:updated", "pullrequest:fulfilled"}

\* bitbucket_webhooks._resolve_event_key
ResolveEventKey(payload) == IF payload.event_key # Null THEN payload.event_key ELSE "unknown"

\* The loop body shared by handle_push and handle_pull_request: skip commits
\* without a hash and hashes already seen, normalise the others.
RECURSIVE NormalizeCommits(_, _, _)
NormalizeCommits(entries, title, seen) ==
    IF entries = << >> THEN << >>
    ELSE LET commit == Head(entries).commit
             branch == Head(entries).branch
         IN IF commit.hash = Null \/ commit.hash \in seen
            THEN NormalizeCommits(Tail(entries), title, seen)
            ELSE <<[hash |-> commit.hash,
                    repository |-> Repository,
                    authorship |-> commit.author,
                    files_changed |-> Dedup(commit.files),
                    story_keys |-> ExtractStoryKeys(commit.message, branch, title),
                    source |-> "webhook",
                    branch |-> branch,
                    modified_on |-> commit.date]>>
                 \o NormalizeCommits(Tail(entries), title, seen \cup {commit.hash})

\* The commits of the changes of a push, each with the branch of its change.
RECURSIVE ChangeEntries(_)
ChangeEntries(changes) ==
    IF changes = << >> THEN << >>
    ELSE LET change == Head(changes)
         IN [i \in 1..Len(change.commits) |->
                [branch |-> change.branch, commit |-> change.commits[i]]]
            \o ChangeEntries(Tail(changes))

\* bitbucket_webhooks.handle_push
HandlePush(event) == NormalizeCommits(ChangeEntries(event.changes), Null, {})

\* bitbucket_webhooks.handle_pull_request
HandlePullRequest(event) ==
    LET pr == event.pullrequest
    IN NormalizeCommits([i \in 1..Len(pr.commits) |->
                            [branch |-> pr.branch, commit |-> pr.commits[i]]],
                        pr.title, {})

\* A commit as Bitbucket reports it.
RawCommit(hash, message, branch, date) ==
    [hash |-> hash, message |-> message, branch |-> branch, date |-> date,
     author |-> "Dev <dev@example.com>", files |-> <<"a.py", "a.py", "b.py">>]

NoPullRequest == [branch |-> Null, title |-> Null, commits |-> << >>]

PushEvent(changes) ==
    [event_key |-> "repo:push", changes |-> changes, pullrequest |-> NoPullRequest]

PullRequestEvent(event_key, branch, title, listed) ==
    [event_key |-> event_key, changes |-> << >>,
     pullrequest |-> [branch |-> branch, title |-> title, commits |-> listed]]

\* The webhook payloads of the model.
BbPayloads ==
    << PushEvent(<<[branch |-> "main",
                    commits |-> <<RawCommit("abc", "a-1 rc-1 RC-1", Null, "t2")>>]>>),
       PushEvent(<<[branch |-> Null,
                    commits |-> <<RawCommit("abc", Null, Null, Null)>>]>>),
       PushEvent(<<[branch |-> "rc-2",
                    commits |-> <<RawCommit("abc", "rc-1 fix", Null, Null)>>]>>),
       PushEvent(<<[branch |-> "main",
                    commits |-> <<RawCommit("abc", "rc-1 fix", Null, Null),
                                  RawCommit("def", Null, Null, "t2")>>]>>),
       PushEvent(<<[branch |-> "rc-2",
                    commits |-> <<RawCommit("abc", "rc-1 fix", Null, "t2"),
                                  RawCommit("abc", Null, Null, Null)>>]>>),
       PushEvent(<<[branch |-> "main",
                    commits |-> <<RawCommit("abc", Null, Null, "t2")>>],
                   [branch |-> "rc-2",
                    commits |-> <<RawCommit("abc", "rc-1 fix", Null, Null)>>]>>),
       PushEvent(<<[branch |-> "main",
                    commits |-> <<RawCommit(Null, "rc-1 fix", Null, "t2")>>]>>),
       PullRequestEvent("pullrequest:updated", "rc-2", "rc-3",
                        <<RawCommit("abc", "rc-1 fix", Null, "t2")>>),
       PullRequestEvent("pullrequest:created", Null, Null,
                        <<RawCommit("abc", Null, Null, Null),
                          RawCommit("abc", "rc-1 fix", Null, "t2")>>),
       PullRequestEvent("pullrequest:fulfilled", "main", Null,
                        <<RawCommit("abc", "rc-1 fix", Null, Null)>>),
       PullRequestEvent("issue:created", Null, Null, << >>),
       PullRequestEvent(Null, Null, Null, << >>) >>

\* What client.iter_commits yields to one scan.
ScanFeeds ==
    { << >>,
      <<RawCommit("abc", Null, "main", "t1")>>,
      <<RawCommit("abc", Null, Null, Null)>>,
      <<RawCommit("abc", Null, "rc-2", "t1")>>,
      <<RawCommit("abc", Null, Null, "t1")>>,
      <<RawCommit("abc", Null, "main", Null)>>,
      <<RawCommit("abc", Null, "main", "t1"), RawCommit("def", Null, Null, Null)>>,
      <<RawCommit("abc", Null, "main", "t1"), RawCommit("abc", Null, "rc-2", Null)>>,
      <<RawCommit(Null, Null, "main", "t1")>> }

BbSecret == "super-secret"

\* X-Webhook-Secret as sent: the secret, the secret in another case, another
\* value, or no header.
BbHeaders == {BbSecret, "Super-Secret", "nope", Null}

\* The deliveries to the Bitbucket webhook: every payload with the secret,
\* the first payload also with a wrong and with a missing header.
BbDeliveries ==
    {[payload |-> i, header |-> BbSecret] : i \in 1..Len(BbPayloads)}
    \cup {[payload |-> 1, header |-> h] : h \in BbHeaders}

NoBbResponse == [status |-> 0, ok |-> FALSE, ingested |-> 0, ignored |-> FALSE]
NoArtifact == << >>

\* handle_push / handle_pull_request of each payload of the model.
BbExtracted ==
    [i \in 1..Len(BbPayloads) |->
        IF ResolveEventKey(BbPayloads[i]) = "repo:push"
        THEN HandlePush(BbPayloads[i])
        ELSE HandlePullRequest(BbPayloads[i])]

\* scan_commits of each feed of the model.
ScanCollected == [feed \in ScanFeeds |-> ScanCommits(feed, {})]
NoDelivery == [payload |-> 0, header |-> Null, again |-> FALSE]

commitVars == <<commits, lastBatch, bbSecret, bbResponse, scanArtifact, upserted, delivery,
                replaced>>

\* The columns among branch and modified_on in which a row of `before` held
\* a value that the row of the same hash in `after` no longer holds.
Replaced(before, after) ==
    {column \in {"branch", "modified_on"} :
        \E r \in before : \E r2 \in after :
            r2.hash = r.hash /\ r[column] # Null /\ r2[column] # r[column]}

\* An empty commit table behind a webhook handler without a secret.
CommitIdle ==
    /\ commits = {}
    /\ lastBatch = << >>
    /\ bbSecret = Null
    /\ bbResponse = NoBbResponse
    /\ scanArtifact = NoArtifact
    /\ upserted = {}
    /\ delivery = NoDelivery
    /\ replaced = {}

\* BitbucketScanner.scan: collect, upsert when there is something, write the
\* artifact of the run.
Scan(feed) ==
    LET collected == ScanCollected[feed]
    IN /\ commits' = IF collected # << >> THEN UpsertMany(commits, collected, now)
                     ELSE commits
       /\ lastBatch' = collected
       /\ upserted' = upserted \cup HashesOf(collected)
       /\ scanArtifact' = [i \in 1..Len(collected) |-> collected[i].hash]
       /\ delivery' = NoDelivery
       /\ replaced' = Replaced(commits, commits')
       /\ UNCHANGED <<bbSecret, bbResponse>>

\* A check that only rejects a missing header.
UnauthorizedWhenMissing(secret, provided) == secret # Null /\ provided = Null

\* process lines 210-214: with a secret, the header must equal it.
Unauthorized(secret, provided) == secret # Null /\ provided # secret

\* BitbucketWebhookHandler.process
Process(inbound) ==
    LET payload == BbPayloads[inbound.payload]
        event_key == ResolveEventKey(payload)
        extracted == BbExtracted[inbound.payload]
        rejected == Unauthorized(bbSecret, inbound.header)
        ignored == event_key \notin SUPPORTED_EVENTS
        records == IF rejected \/ ignored THEN << >> ELSE extracted
    IN /\ bbResponse' =
            IF rejected
            THEN [status |-> 401, ok |-> FALSE, ingested |-> 0, ignored |-> FALSE]
            ELSE IF ignored
            THEN [status |-> 202, ok |-> TRUE, ingested |-> 0, ignored |-> TRUE]
            ELSE [status |-> 202, ok |-> TRUE, ingested |-> Len(records), ignored |-> FALSE]
       /\ commits' = UpsertMany(commits, records, now)
       /\ lastBatch' = records
       /\ upserted' = upserted \cup HashesOf(records)
       /\ delivery' = [payload |-> inbound.payload,
                       header |-> inbound.header,
                       again |-> delivery.payload = inbound.payload]
       /\ replaced' = Replaced(commits, commits')
       /\ UNCHANGED <<bbSecret, scanArtifact>>

\* The clock of the ingestion model.
CommitTick ==
    /\ now < MaxClock
    /\ now' = now + 1
    /\ UNCHANGED commitVars

---------------------------------------------------------------------------
(* Specifications *)

\* Header values a caller may hand to verify_signature for a body signed
\* under the secret `signer`.
HeaderKinds ==
    {"base64", "hex", "HEX", "base64 in spaces", "hex pairs spaced",
     "base64 cut short", "text", "blank", "missing"}

HeaderValue(kind, signer, body) ==
    LET digest == HmacDigest(signer, body)
        hex == HexEncode(digest)
    IN CASE kind = "base64" -> B64Encode(digest)
         [] kind = "hex" -> hex
         [] kind = "HEX" ->
                [i \in 1..Len(hex) |-> HexUpper[HexVal(hex[i]) + 1]]
         [] kind = "base64 in spaces" -> <<" ">> \o B64Encode(digest) \o <<" ">>
         [] kind = "hex pairs spaced" ->
                [i \in 1..(3 * DigestLen - 1) |->
                    IF i % 3 = 0 THEN " " ELSE hex[i - (i \div 3)]]
         [] kind = "base64 cut short" -> SubSeq(B64Encode(digest), 1, 40)
         [] kind = "text" -> <<"i", "n", "v", "a", "l", "i", "d">>
         [] kind = "blank" -> <<" ", " ">>
         [] OTHER -> << >>

Secrets == {"topsecret", "another"}

\* The calls of verify_signature the model makes.
Calls ==
    [secret : Secrets \cup {""}, signer : Secrets, body : 1..4, kind : HeaderKinds,
     result : {"pending"}]

NoCall == [secret |-> "", signer |-> "", body |-> 0, kind |-> "missing", result |-> "none"]

\* verify_signature(secret=..., body=..., signature=...)
Verify ==
    /\ verification.result = "pending"
    /\ verification' =
          [verification EXCEPT !.result =
              IF VerifySignature(verification.secret, verification.body,
                                 HeaderValue(verification.kind, verification.signer,
                                             verification.body))
              THEN "accepted" ELSE "rejected"]

\* No pure function has been called.
NoEvaluation == [fn |-> "none"]

vars == <<jiraVars, commitVars, verification, evaluation>>

\* One invocation at a time.
Serial == {"p1"}

\* Every deployment and kind of request, one invocation at a time.
Init == JiraInit /\ CommitIdle /\ verification = NoCall /\ evaluation = NoEvaluation

Next ==
    \/ \E p \in Serial : Receive(p, Requests, MaxRequests) /\ UNCHANGED <<commitVars, verification, evaluation>>
    \/ \E p \in Serial : Step(p, StoreFaults) /\ UNCHANGED <<commitVars, verification, evaluation>>
    \/ Tick /\ UNCHANGED <<commitVars, verification, evaluation>>

Spec == Init /\ [][Next]_vars

\* Signed deliveries of issue events, one invocation at a time.
StoreInit == Init /\ config = [secret |-> SenderSecret, arn |-> FALSE]

StoreNext ==
    \/ \E p \in Serial : Receive(p, Deliveries, MaxDeliveries) /\ UNCHANGED <<commitVars, verification, evaluation>>
    \/ \E p \in Serial : Step(p, StoreFaults) /\ UNCHANGED <<commitVars, verification, evaluation>>
    \/ Tick /\ UNCHANGED <<commitVars, verification, evaluation>>

SpecStore == StoreInit /\ [][StoreNext]_vars

\* Concurrent invocations delivering issue events to a table that answers
\* every call.
RaceNext ==
    \/ \E p \in Procs : Receive(p, RaceDeliveries, MaxRequests) /\ UNCHANGED <<commitVars, verification, evaluation>>
    \/ \E p \in Procs : Step(p, {}) /\ UNCHANGED <<commitVars, verification, evaluation>>
    \/ Tick /\ UNCHANGED <<commitVars, verification, evaluation>>

SpecRace == StoreInit /\ [][RaceNext]_vars

\* Requests of every outcome, well-formed or not, one invocation at a time.
AnswersNext ==
    \/ \E p \in Serial : Receive(p, AnswerRequests, MaxRequests) /\ UNCHANGED <<commitVars, verification, evaluation>>
    \/ \E p \in Serial : Step(p, StoreFaults) /\ UNCHANGED <<commitVars, verification, evaluation>>
    \/ Tick /\ UNCHANGED <<commitVars, verification, evaluation>>

SpecAnswers == Init /\ [][AnswersNext]_vars

\* Concurrent invocations delivering an update and deletes of one issue, the
\* second delete without a timestamp, to a table that answers every call.
DeleteRaceNext ==
    \/ \E p \in Procs :
           Receive(p, {[route |-> "lambda", body |-> b, sig |-> "b64"] : b \in {1, 3, 4}},
                   MaxRequests)
           /\ UNCHANGED <<commitVars, verification, evaluation>>
    \/ \E p \in Procs : Step(p, {}) /\ UNCHANGED <<commitVars, verification, evaluation>>
    \/ Tick /\ UNCHANGED <<commitVars, verification, evaluation>>

SpecDeleteRace == StoreInit /\ [][DeleteRaceNext]_vars

\* Signed deliveries of issue events to a table whose only errors are
\* transient ones.
TransientNext ==
    \/ \E p \in Serial : Receive(p, Deliveries, MaxRequests) /\ UNCHANGED <<commitVars, verification, evaluation>>
    \/ \E p \in Serial : Step(p, {"transient"}) /\ UNCHANGED <<commitVars, verification, evaluation>>
    \/ Tick /\ UNCHANGED <<commitVars, verification, evaluation>>

SpecTransient == StoreInit /\ [][TransientNext]_vars

\* Payloads for the idempotency key: every combination of the identifiers a
\* delivery may carry (deliveryId, delivery_id, eventId, event_id, the
\* changelog id, timestamp, fields.updated), for an update and a delete.
KeyPayloads ==
    {Payload(evt, "A-1", updated, timestamp, ids, changelogId, "todo") :
        evt \in {"jira:issue_updated", "jira:issue_deleted"},
        updated \in {NoTime, 1, Unparsed},
        timestamp \in {NoTime, 1, 2},
        ids \in {<<"", "", "", "">>, <<"d1", "", "", "">>, <<"", "d2", "", "">>,
                 <<"", "", "e3", "">>, <<"", "", "", "e4">>, <<"", "d2", "e3", "">>},
        changelogId \in {"", "c9"}}

KeyCalls ==
    [fn : {"idempotency_key"}, payload : KeyPayloads, clock : 0..MaxClock,
     updated_at : {NoTime}, value : {"pending"}]

\* The item the handler builds for the payload (handler lines 85-88 with
\* _handle_upsert 187-213 or _handle_delete 242-243 and _mark_tombstone).
ItemOf(payload, clock) ==
    LET event == NormalizePayload(payload, clock)
    IN IF event.event_type = "jira:issue_deleted"
       THEN TombstoneWrite(event, << >>, clock)
       ELSE UpsertItem(event, clock)

\* The handler derives the idempotency key of a delivery.
DeriveKey ==
    /\ evaluation.fn = "idempotency_key"
    /\ evaluation.value = "pending"
    /\ LET it == ItemOf(evaluation.payload, evaluation.clock)
       IN evaluation' = [evaluation EXCEPT !.updated_at = it.updated_at,
                                           !.value = it.idempotency_key]

KeysInit ==
    /\ JiraInit
    /\ config = [secret |-> "", arn |-> FALSE]
    /\ CommitIdle
    /\ verification = NoCall
    /\ evaluation \in KeyCalls

KeysNext == DeriveKey /\ UNCHANGED <<jiraVars, commitVars, verification>>

SpecKeys == KeysInit /\ [][KeysNext]_vars

(* The matcher (matcher/link_rules.py, matcher/engine.py).  Texts are     *)
(* sequences of one-character strings.                                     *)

\* None where a text is expected.
NoText == <<Null>>

\* No upper-casing: the text is only stripped.
NormalizeSourceKeepCase(text) ==
    IF text = NoText \/ text = << >> THEN NoText
    ELSE IF Strip(text) = << >> THEN NoText
    ELSE Strip(text)

\* link_rules._normalize_source
NormalizeSource(text) ==
    IF text = NoText \/ text = << >> THEN NoText
    ELSE IF Strip(text) = << >> THEN NoText
    ELSE Upper(Strip(text))

\* for match in matches: if match not in ordered: ordered.append(match)
RECURSIVE AppendNew(_, _)
AppendNew(ordered, matches) ==
    IF matches = << >> THEN ordered
    ELSE AppendNew(IF \E i \in 1..Len(ordered) : ordered[i] = Head(matches)
                   THEN ordered ELSE Append(ordered, Head(matches)),
                   Tail(matches))

\* link_rules.parse_story_keys
ParseStoryKeys(source) ==
    IF NormalizeSource(source) = NoText THEN << >>
    ELSE AppendNew(<< >>, FindAll(NormalizeSource(source), 1))

\* link_rules.extract_story_keys(message=, branch=, pr_title=)
MatcherExtractStoryKeys(message, branch, pr_title) ==
    AppendNew(AppendNew(AppendNew(<< >>, ParseStoryKeys(message)),
                        ParseStoryKeys(branch)),
              ParseStoryKeys(pr_title))

\* link_rules._pull_request_title, for a commit that has its title in
\* pr_title: a title that is blank counts as none.
PullRequestTitle(commit) ==
    IF commit.pr_title # NoText /\ Strip(commit.pr_title) # << >>
    THEN commit.pr_title ELSE NoText

\* The keys parsed from the items of an explicit story_keys field
\* (link_rules lines 74-80).
RECURSIVE ExplicitKeys(_, _)
ExplicitKeys(ordered, raw_keys) ==
    IF raw_keys = << >> THEN ordered
    ELSE ExplicitKeys(AppendNew(ordered, ParseStoryKeys(Head(raw_keys))), Tail(raw_keys))

\* The keys derived from the texts whatever story_keys holds.
StoryKeysFromCommitTextOnly(commit) ==
    MatcherExtractStoryKeys(
        IF commit.message # NoText /\ commit.message # << >>
        THEN commit.message ELSE commit.summary,
        commit.branch, PullRequestTitle(commit))

\* link_rules.story_keys_from_commit: explicit is whether the commit has a
\* list or tuple under story_keys.
StoryKeysFromCommit(commit) ==
    LET ordered == IF commit.explicit THEN ExplicitKeys(<< >>, commit.story_keys)
                   ELSE << >>
    IN IF ordered # << >> THEN ordered
       ELSE MatcherExtractStoryKeys(
                IF commit.message # NoText /\ commit.message # << >>
                THEN commit.message ELSE commit.summary,
                commit.branch, PullRequestTitle(commit))

\* The keys of all commits in the order they are first met.
RECURSIVE AllKeys(_)
AllKeys(keys_of) ==
    IF keys_of = << >> THEN << >>
    ELSE AppendNew(Head(keys_of), AllKeys(Tail(keys_of)))

\* AuditProcessor(issues, commits).process(): for every commit in order its
\* story keys; a key's entry of commit_story_mapping lists the commits that
\* carry it, a commit without keys is an orphan, an issue whose key no
\* commit carries is a story with no commits.  Commits are named by their
\* position in the input.
AuditProcess(issues, commit_list) ==
    LET keys_of == [j \in 1..Len(commit_list) |-> StoryKeysFromCommit(commit_list[j])]
        carriers(key) ==
            {j \in 1..Len(commit_list) :
                \E i \in 1..Len(keys_of[j]) : keys_of[j][i] = key}
        positions == [j \in 1..Len(commit_list) |-> j]
        keys == AllKeys(keys_of)
    IN [commit_story_mapping |->
            [i \in 1..Len(keys) |->
                [story_key |-> keys[i],
                 commits |-> SelectSeq(positions, LAMBDA j : j \in carriers(keys[i]))]],
        orphan_commits |-> SelectSeq(positions, LAMBDA j : keys_of[j] = << >>),
        stories_with_no_commits |->
            SelectSeq(issues, LAMBDA key : carriers(key) = {}),
        summary |-> [total_stories |-> Len(issues), total_commits |-> Len(commit_list)]]

\* engine.match lines 35-44: one matched entry per commit of every entry
\* of commit_story_mapping.
RECURSIVE Pairs(_)
Pairs(mapping) ==
    IF mapping = << >> THEN << >>
    ELSE [n \in 1..Len(Head(mapping).commits) |->
             [issue_key |-> Head(mapping).story_key,
              commit |-> Head(mapping).commits[n]]]
         \o Pairs(Tail(mapping))

\* Only the first commit of every entry of the mapping becomes a pair.
MatchFirstCommitOnly(issues, commit_list) ==
    LET processed == AuditProcess(issues, commit_list)
        mapping == processed.commit_story_mapping
    IN [matched |-> [i \in 1..Len(mapping) |->
                        [issue_key |-> mapping[i].story_key,
                         commit |-> mapping[i].commits[1]]],
        missing |-> processed.stories_with_no_commits,
        orphans |-> processed.orphan_commits,
        summary |-> processed.summary]

\* Every issue is reported as missing.
MatchAllMissing(issues, commit_list) ==
    LET processed == AuditProcess(issues, commit_list)
    IN [matched |-> Pairs(processed.commit_story_mapping),
        missing |-> issues,
        orphans |-> processed.orphan_commits,
        summary |-> processed.summary]

\* engine.match: the matched entries, then the other three results.
Match(issues, commit_list) ==
    LET processed == AuditProcess(issues, commit_list)
    IN [matched |-> Pairs(processed.commit_story_mapping),
        missing |-> processed.stories_with_no_commits,
        orphans |-> processed.orphan_commits,
        summary |-> processed.summary]

\* The texts the matcher's inputs are made of.
Texts ==
    [w1 |-> <<"a", "b", "-", "1">>,
     w2 |-> <<"A", "B", "-", "1">>,
     w3 |-> <<"C", "d", "9", "-", "2", "0">>,
     w4 |-> <<"a", "-", "1">>,
     w5 |-> <<"1", "e", "f", "-", "3", "x">>,
     w6 |-> <<"f", "i", "x">>,
     b1 |-> <<"f", "e", "a", "t", "u", "r", "e", "/", "g", "h", "-", "4", "-", "c", "l", "e", "a", "n", "u", "p">>,
     b2 |-> <<"a", "b", "-", "1", "/", "C", "d", "9", "-", "2", "0">>,
     b3 |-> <<"m", "a", "i", "n">>,
     t1 |-> <<"A", "B", "-", "1", " ", "!">>,
     t2 |-> <<"i", "j", "-", "7", " ", "f", "a", "l", "l", "b", "a", "c", "k">>]

\* sync.recompute_correlation lines 57-59 and 76-81: the correlation of the
\* artifact is match(issues=<the touched keys>, commits=[]).  The handler
\* passes one event, so the sorted keys are that event's key.
RecomputeCorrelation(issue_keys) == Match(issue_keys, << >>)

\* Bounds of the matcher's inputs: words in a message, commits in a call
\* of match.
MaxWords == 2
MaxCommits == 2

\* The words messages are made of: a key in lower case, the same key in
\* upper case, a key with digits in its prefix, a one-letter prefix (no
\* key), a key that starts inside the word and is followed by more, and a
\* word without a key.
RECURSIVE Sentences(_)
Sentences(n) ==
    LET words == {Texts.w1, Texts.w2, Texts.w3, Texts.w4, Texts.w5, Texts.w6}
    IN IF n = 0 THEN {<< >>}
       ELSE Sentences(n - 1) \cup
            {s \o (IF s = << >> THEN << >> ELSE <<" ">>) \o w :
                s \in Sentences(n - 1) \ {<< >>}, w \in words}
            \cup words

Messages == Sentences(MaxWords) \cup {NoText, <<" ", " ">>}

\* A commit as the matcher reads it.
Commit(explicit, story_keys, message, summary, branch, pr_title) ==
    [explicit |-> explicit, story_keys |-> story_keys, message |-> message,
     summary |-> summary, branch |-> branch, pr_title |-> pr_title]

\* The values of a story_keys field: empty, one key, a key in both cases
\* and another, items without a key (a text, None), an item with two keys.
StoryKeyFields ==
    {<< >>, <<Texts.w1>>, <<Texts.w1, Texts.w2, Texts.t2>>, <<Texts.w6>>,
     <<NoText, Texts.w4>>, <<Texts.b2>>, <<Texts.w6, Texts.w3>>}

\* Commits with and without an explicit story_keys field.
Commits ==
    {Commit(TRUE, keys, message, NoText, branch, pr_title) :
        keys \in StoryKeyFields, message \in {NoText, Texts.w1, Texts.w3},
        branch \in {NoText, Texts.b1}, pr_title \in {NoText, Texts.t2}}
    \cup {Commit(FALSE, << >>, message, summary, branch, pr_title) :
        message \in {NoText, << >>, Texts.w3}, summary \in {NoText, Texts.w5},
        branch \in {NoText, Texts.b1}, pr_title \in {NoText, Texts.t2, <<" ">>}}

\* The commit lists handed to match.
MatchCommits ==
    {Commit(TRUE, <<Texts.w1, Texts.t2>>, Texts.w3, NoText, NoText, NoText),
     Commit(FALSE, << >>, Texts.w2, NoText, Texts.b1, Texts.t2),
     Commit(FALSE, << >>, Texts.w6, NoText, Texts.b3, NoText),
     Commit(FALSE, << >>, Texts.w1 \o <<" ">> \o Texts.w2, NoText, NoText, NoText),
     Commit(TRUE, << >>, NoText, NoText, NoText, NoText)}

RECURSIVE CommitLists(_)
CommitLists(n) ==
    IF n = 0 THEN {<< >>}
    ELSE CommitLists(n - 1) \cup
         {Append(l, c) : l \in CommitLists(n - 1), c \in MatchCommits}

\* The calls of the matcher the model makes; for recompute_correlation the
\* commits are those in the store at the time of the call.
MatcherCalls ==
    {[fn |-> "extract_story_keys", issues |-> << >>,
      commits |-> <<Commit(FALSE, << >>, message, NoText, branch, pr_title)>>,
      done |-> FALSE, value |-> << >>] :
        message \in Messages,
        branch \in {NoText, Texts.b1, Texts.b2, Texts.b3},
        pr_title \in {NoText, Texts.t1, Texts.t2, <<" ">>}}
    \cup {[fn |-> "story_keys_from_commit", issues |-> << >>, commits |-> <<c>>,
           done |-> FALSE, value |-> << >>] : c \in Commits}
    \cup {[fn |-> "match", issues |-> issues, commits |-> l,
           done |-> FALSE, value |-> << >>] :
        issues \in {<< >>, <<"AB-1">>, <<"AB-1", "ZZ-9">>},
        l \in CommitLists(MaxCommits)}
    \cup {[fn |-> "recompute_correlation", issues |-> <<key>>, commits |-> l,
           done |-> FALSE, value |-> << >>] :
        key \in {"AB-1", "ZZ-9"}, l \in CommitLists(MaxCommits)}

\* extract_story_keys(message=..., branch=..., pr_title=...)
Extract ==
    /\ evaluation.fn = "extract_story_keys"
    /\ ~evaluation.done
    /\ LET c == evaluation.commits[1]
       IN evaluation' = [evaluation EXCEPT
              !.done = TRUE,
              !.value = MatcherExtractStoryKeys(c.message, c.branch, c.pr_title)]

\* story_keys_from_commit(commit)
FromCommit ==
    /\ evaluation.fn = "story_keys_from_commit"
    /\ ~evaluation.done
    /\ evaluation' = [evaluation EXCEPT
           !.done = TRUE, !.value = StoryKeysFromCommit(evaluation.commits[1])]

\* match(issues, commits)
Correlate ==
    /\ evaluation.fn = "match"
    /\ ~evaluation.done
    /\ evaluation' = [evaluation EXCEPT
           !.done = TRUE, !.value = Match(evaluation.issues, evaluation.commits)]

\* recompute_correlation(events=[event]) for an event of the issue in
\* issues, made while the commits of the call are the stored commits.
Recompute ==
    /\ evaluation.fn = "recompute_correlation"
    /\ ~evaluation.done
    /\ evaluation' = [evaluation EXCEPT
           !.done = TRUE, !.value = RecomputeCorrelation(evaluation.issues)]

MatcherInit ==
    /\ JiraInit
    /\ config = [secret |-> "", arn |-> FALSE]
    /\ CommitIdle
    /\ verification = NoCall
    /\ evaluation \in MatcherCalls

MatcherNext ==
    \/ Extract /\ UNCHANGED <<jiraVars, commitVars, verification>>
    \/ FromCommit /\ UNCHANGED <<jiraVars, commitVars, verification>>
    \/ Correlate /\ UNCHANGED <<jiraVars, commitVars, verification>>
    \/ Recompute /\ UNCHANGED <<jiraVars, commitVars, verification>>

SpecMatcher == MatcherInit /\ [][MatcherNext]_vars

(* The resilient API client (clients.jira_client, clients.bitbucket_client): *)
(* a fetch of one page with retries and a answer cache.  The state of the  *)
(* client is the record in evaluation.                                       *)

\* Bound on the fetches one client makes.
MaxFetches == 2

\* What the upstream answers to one request: a page of records, a rate
\* limit with and without Retry-After, a server error, a timeout (status 0)
\* and a client error.
Responses ==
    {[status |-> 200, records |-> r, retry_after |-> << >>, text |-> ""] : r \in {"r1", "r2"}}
    \cup {[status |-> 429, records |-> "", retry_after |-> ra, text |-> "rate limit"] :
             ra \in {<<3>>, << >>}}
    \cup {[status |-> 500, records |-> "", retry_after |-> << >>, text |-> "server down"],
          [status |-> 0, records |-> "", retry_after |-> << >>, text |-> ""],
          [status |-> 404, records |-> "", retry_after |-> << >>, text |-> "not found"]}

\* Every failure is transient.
TransientAnyFailure(answer) == answer.status # 200

\* Timeouts, 429 and 5xx are transient.
Transient(answer) ==
    answer.status = 0 \/ answer.status = 429 \/ answer.status >= 500

\* One cache key for all queries.
FingerprintOfNothing(query) == "jira_"

\* The cache key of a query.
Fingerprint(query) == "jira_" \o query

\* The delay is the computed one whatever the response says.
RetryDelayComputedOnly(n, answer, jitter) == 2 ^ (n - 1) + jitter

\* The delay before retry n + 1: base_delay * 2^(n-1) plus jitter, or the
\* Retry-After of a 429 that has one.
RetryDelay(n, answer, jitter) ==
    IF answer.status = 429 /\ answer.retry_after # << >>
    THEN answer.retry_after[1]
    ELSE 2 ^ (n - 1) + jitter

\* A client that has fetched nothing; disabled is RC_DISABLE_RETRIES, and
\* latest remembers the records of the last successful request per query.
NewClient(disabled) ==
    [fn |-> "fetch", disabled |-> disabled, fetches |-> 0, pc |-> "idle",
     query |-> "", use_cache |-> FALSE, hit |-> FALSE,
     log |-> << >>, sleeps |-> << >>, outcome |-> "none", value |-> "",
     error |-> [status_code |-> 0, snippet |-> "", context |-> ""],
     cache |-> [f \in {Fingerprint("v1"), Fingerprint("v2")} |-> ""],
     latest |-> [q \in {"v1", "v2"} |-> ""]]

\* fetch(query, use_cache): with cache use requested and an entry for the
\* fingerprint the entry is returned and the network is not used.
StartFetch(query, use_cache) ==
    /\ evaluation.fn = "fetch"
    /\ evaluation.pc \in {"idle", "done"}
    /\ evaluation.fetches < MaxFetches
    /\ LET hit == use_cache /\ evaluation.cache[Fingerprint(query)] # ""
       IN evaluation' = [evaluation EXCEPT
              !.fetches = @ + 1, !.query = query, !.use_cache = use_cache,
              !.hit = hit, !.log = << >>, !.sleeps = << >>,
              !.pc = IF hit THEN "done" ELSE "request",
              !.outcome = IF hit THEN "records" ELSE "none",
              !.value = IF hit THEN evaluation.cache[Fingerprint(query)] ELSE "",
              !.error = [status_code |-> 0, snippet |-> "", context |-> ""]]

\* One request of the retry loop and what follows its response: the records
\* are cached and returned, or the client sleeps and goes round again, or
\* the typed error is raised.
Request(answer, jitter) ==
    /\ evaluation.fn = "fetch"
    /\ evaluation.pc = "request"
    /\ LET n == Len(evaluation.log) + 1
           logged == [evaluation EXCEPT !.log = Append(@, answer)]
       IN IF answer.status = 200
          THEN evaluation' = [logged EXCEPT
                   !.pc = "done", !.outcome = "records", !.value = answer.records,
                   !.cache[Fingerprint(evaluation.query)] = answer.records,
                   !.latest[evaluation.query] = answer.records]
          ELSE IF Transient(answer) /\ ~evaluation.disabled /\ n < MaxAttempts
          THEN evaluation' = [logged EXCEPT
                   !.sleeps = Append(@, RetryDelay(n, answer, jitter))]
          ELSE evaluation' = [logged EXCEPT
                   !.pc = "done", !.outcome = "error",
                   !.error = [status_code |-> answer.status,
                              snippet |-> answer.text,
                              context |-> evaluation.query]]

ClientNext ==
    \/ \E query \in {"v1", "v2"}, use_cache \in BOOLEAN :
           StartFetch(query, use_cache) /\ UNCHANGED <<jiraVars, commitVars, verification>>
    \/ \E answer \in Responses, jitter \in {0, 1} :
           Request(answer, jitter) /\ UNCHANGED <<jiraVars, commitVars, verification>>

\* A new client, with retries enabled or disabled; the handlers are idle.
ClientInit ==
    /\ JiraInit
    /\ config = [secret |-> "", arn |-> FALSE]
    /\ CommitIdle
    /\ verification = NoCall
    /\ evaluation \in {NewClient(disabled) : disabled \in BOOLEAN}

SpecClient == ClientInit /\ [][ClientNext]_vars

\* Scans and webhook deliveries feeding one commit table; the Jira handler
\* is idle.
CommitsInit ==
    /\ JiraInit
    /\ config = [secret |-> "", arn |-> FALSE]
    /\ commits = {}
    /\ lastBatch = << >>
    /\ bbSecret \in {Null, BbSecret}
    /\ bbResponse = NoBbResponse
    /\ scanArtifact = NoArtifact
    /\ upserted = {}
    /\ delivery = NoDelivery
    /\ replaced = {}
    /\ verification = NoCall
    /\ evaluation = NoEvaluation

CommitsNext ==
    \/ \E feed \in ScanFeeds : Scan(feed) /\ UNCHANGED <<jiraVars, verification, evaluation>>
    \/ \E inbound \in BbDeliveries : Process(inbound) /\ UNCHANGED <<jiraVars, verification, evaluation>>
    \/ CommitTick /\ UNCHANGED <<verification, evaluation, table, secretCache, config, pc, req, expected, ev, item,
                                  attempt, calls, result, response, stages, served, artifacts,
                                  history>>

SpecCommits == CommitsInit /\ [][CommitsNext]_vars

\* Calls of verify_signature on every combination of secret, signer, body
\* and kind of header value; everything else is idle.
SigInit ==
    /\ JiraInit
    /\ config = [secret |-> "", arn |-> FALSE]
    /\ CommitIdle
    /\ verification \in Calls
    /\ evaluation = NoEvaluation

SigNext == Verify /\ UNCHANGED <<jiraVars, commitVars, evaluation>>

SpecSig == SigInit /\ [][SigNext]_vars

---------------------------------------------------------------------------
(* Claims about the Jira webhook handler and the issue table *)

HistoryOn(k) == {i \in 1..Len(history) : KeyOf(history[i].write) = k}

IsUpsertPut(w) == w.op = "put" /\ ~w.deleted

\* The pairs of executed create/update puts the claim C1 is about: two puts
\* on one (issue_key, updated_at) with different idempotency keys, the only
\* writes that row has received.
RacingPuts ==
    {pair \in (1..Len(history)) \X (1..Len(history)) :
        /\ pair[1] < pair[2]
        /\ IsUpsertPut(history[pair[1]].write)
        /\ IsUpsertPut(history[pair[2]].write)
        /\ KeyOf(history[pair[1]].write) = KeyOf(history[pair[2]].write)
        /\ history[pair[1]].write.idempotency_key # history[pair[2]].write.idempotency_key
        /\ HistoryOn(KeyOf(history[pair[1]].write)) = {pair[1], pair[2]}}

\* C1: of two create/update deliveries with different idempotency keys that
\* target the same (issueKey, updatedAt), in every interleaving, the put the
\* table executes first commits and the other is a no-op: the stored row is
\* the first one's item, attribute for attribute.
C1_FirstCommittedWins ==
    \A pair \in RacingPuts :
        /\ history[pair[1]].committed
        /\ ~history[pair[2]].committed
        /\ KeyOf(history[pair[1]].write) \in DOMAIN table
        /\ table[KeyOf(history[pair[1]].write)] = Stored(history[pair[1]].write)

\* C1 witness: both invocations were in flight together, both puts have
\* been executed, and they form a racing pair.
C1_Witness ==
    /\ RacingPuts # {}
    /\ \A p \in Procs : pc[p] = "finish" /\ IsUpsertPut(item[p])
    /\ item["p1"].idempotency_key # item["p2"].idempotency_key

\* C2 (as claimed): every write of the handler changes an existing row only
\* when the write's idempotency key equals the key stored on that row.
C2_OnlySameKeyOverwrites ==
    [][\A k \in DOMAIN table :
          (k \in DOMAIN table' /\ table'[k] # table[k]) =>
              \E p \in Procs :
                  /\ pc[p] = "write"
                  /\ <<item[p].issue_key, item[p].updated_at>> = k
                  /\ item[p].idempotency_key = table[k].idempotency_key]_vars

\* C2 as amended: a put of the handler (of a create/update or of a new
\* tombstone) changes an existing row only when its idempotency key equals
\* the key stored on the row; the in-place tombstone update of a delete is
\* unconditional: whatever key the row holds, it sets deleted, the event
\* type, received_at and the idempotency key and leaves the row's other
\* attributes; no write removes a row.
C2_OnlyPutsAreGuarded ==
    [][\A k \in DOMAIN table :
          /\ k \in DOMAIN table'
          /\ table'[k] # table[k] =>
                \E p \in Procs :
                    /\ pc[p] = "write"
                    /\ KeyOf(item[p]) = k
                    /\ \/ /\ item[p].op = "put"
                          /\ item[p].idempotency_key = table[k].idempotency_key
                          /\ table'[k] = Stored(item[p])
                       \/ /\ item[p].op = "update"
                          /\ table'[k] =
                                [table[k] EXCEPT
                                    !.deleted = TRUE,
                                    !.last_event_type = item[p].last_event_type,
                                    !.received_at = item[p].received_at,
                                    !.idempotency_key = item[p].idempotency_key]]_vars

\* A put with another idempotency key was executed on an existing row and
\* left it as it was, and a delete has since put its own key on a row that
\* held another one.
C2_Witness ==
    /\ \E i \in 1..Len(history) :
          /\ history[i].write.op = "put"
          /\ ~history[i].committed
          /\ KeyOf(history[i].write) \in DOMAIN table
    /\ \E j \in 1..Len(history) :
          /\ history[j].write.op = "update"
          /\ history[j].committed
          /\ table[KeyOf(history[j].write)].idempotency_key
                 = history[j].write.idempotency_key

\* C3 (as claimed): when a delivery is applied a second time, right after it
\* was applied, the table stays as the first application left it: the same
\* rows with the same attribute values.
C3_ApplyTwiceIsApplyOnce ==
    [][\A p \in Serial :
          (/\ pc[p] = "write" /\ pc'[p] = "finish" /\ result'[p].success
           /\ history # << >>
           /\ history[Len(history)].body = req[p].body)
          => table' = table]_vars

\* The delete invocation p executes its write in this step.
DeleteApplied(p) ==
    /\ pc[p] = "write"
    /\ pc'[p] = "finish"
    /\ result'[p].success
    /\ ev[p].event_type = "jira:issue_deleted"

\* The key of the issue's row with the greatest updatedAt.
LatestKey(t, issue_key) ==
    CHOOSE k \in RowsOf(t, issue_key) : \A j \in RowsOf(t, issue_key) : j[2] <= k[2]

\* The timestamp of the delete event: the payload's, or the time the
\* delete was handled when the payload carries none.
EventTimestamp(p) ==
    IF ev[p].payload.timestamp # NoTime THEN ev[p].payload.timestamp ELSE item[p].received_at

\* C4: a delete delivery removes no row.  With a row for the issue key it
\* sets deleted and the idempotency key on the row with the greatest
\* updatedAt, in place, changes no other row and adds none; without one it
\* adds exactly one row, deleted, at the delete event's timestamp.
C4_DeleteTombstones ==
    [][\A p \in Serial :
          DeleteApplied(p) =>
              LET ik == ev[p].issue_key
                  idem == item[p].idempotency_key
              IN /\ \A k \in DOMAIN table : k \in DOMAIN table'
                 /\ IF RowsOf(table, ik) # {}
                    THEN LET k == LatestKey(table, ik)
                         IN /\ DOMAIN table' = DOMAIN table
                            /\ table'[k].deleted
                            /\ table'[k].idempotency_key = idem
                            /\ table'[k].updated_at = table[k].updated_at
                            /\ \A j \in DOMAIN table \ {k} : table'[j] = table[j]
                    ELSE /\ DOMAIN table' = DOMAIN table \cup {<<ik, EventTimestamp(p)>>}
                         /\ table'[<<ik, EventTimestamp(p)>>].deleted
                         /\ table'[<<ik, EventTimestamp(p)>>].updated_at = EventTimestamp(p)
                         /\ \A j \in DOMAIN table : table'[j] = table[j]]_vars

\* C4 witness: a delete has updated an existing row in place; the row is
\* a tombstone now.
C4_Witness ==
    \E i \in 1..Len(history) :
        /\ history[i].write.op = "update"
        /\ table[KeyOf(history[i].write)].deleted
        /\ \E k \in RowsOf(table, history[i].write.issue_key) :
              k[2] < history[i].write.updated_at /\ ~table[k].deleted

StageOrder == <<"authenticate", "parse", "apply", "recorrelate">>

IsPrefix(s, t) == Len(s) <= Len(t) /\ SubSeq(t, 1, Len(s)) = s

\* The request of invocation p passed the signature check and its body
\* was parsed and normalised.
VerifiedAndParsed(p) ==
    /\ \/ expected[p] = ""
       \/ VerifySignature(expected[p], req[p].body, SignatureHeader(req[p].sig, req[p].body))
    /\ Bodies[req[p].body].json
    /\ ev[p].ok

\* C8: the steps of a request occur only in the order authenticate, parse,
\* apply, recorrelate; the table is written only by a request that passed
\* verification and parsing; recorrelation only follows a successful apply.
C8_StepsInOrder ==
    /\ [](\A p \in Procs :
             /\ IsPrefix(stages[p], StageOrder)
             /\ ("recorrelate" \in {stages[p][i] : i \in 1..Len(stages[p])}
                    => result[p].success))
    /\ [][(table' # table \/ history' # history) =>
             \E p \in Procs :
                 /\ stages[p] = <<"authenticate", "parse", "apply">>
                 /\ VerifiedAndParsed(p)]_vars

\* C8 witness: a request has gone through all four steps and written a row.
C8_Witness ==
    \E p \in Procs :
        /\ stages[p] = StageOrder
        /\ response[p] = 202
        /\ KeyOf(item[p]) \in DOMAIN table

\* The request of invocation p fails the signature check of a resolved
\* secret.
BadSignature(p) ==
    /\ pc[p] \notin {"idle", "auth"}
    /\ expected[p] # ""
    /\ ~VerifySignature(expected[p], req[p].body, SignatureHeader(req[p].sig, req[p].body))

---------------------------------------------------------------------------
(* The commit table *)

\* The values of a column in the rows of one hash.
ColumnOf(rows, hash, column) == {r[column] : r \in {x \in rows : x.hash = hash}}

\* C5: when a hash is stored with a non-null branch (modifiedOn), an upsert
\* of that hash that carries a null branch (modifiedOn) leaves the stored
\* branch (modifiedOn) as it was, whatever scans and webhooks came before.
C5_NullKeepsStored ==
    [][\A i \in 1..Len(lastBatch') :
          \A column \in {"branch", "modified_on"} :
             \A r \in commits :
                (r.hash = lastBatch'[i].hash /\ r[column] # Null
                 /\ lastBatch'[i][column] = Null)
                => ColumnOf(commits', r.hash, column) = {r[column]}]_vars

\* A webhook upsert without branch and date has been applied to a row that
\* still shows the branch and the date recorded before.
C5_Witness ==
    \E i \in 1..Len(lastBatch) : \E r \in commits :
        /\ r.hash = lastBatch[i].hash
        /\ lastBatch[i].source = "webhook" /\ r.source = "webhook"
        /\ lastBatch[i].branch = Null /\ r.branch # Null
        /\ lastBatch[i].modified_on = Null /\ r.modified_on # Null

\* C6 as stated: first write wins, a non-null branch (modifiedOn) of a row is
\* never changed by a later upsert of the hash.
C6_FirstWriteWins ==
    [][\A r \in commits : \A column \in {"branch", "modified_on"} :
          r[column] # Null => ColumnOf(commits', r.hash, column) = {r[column]}]_vars

\* C6 as amended: the last non-null write wins. After an upsert the branch
\* (modifiedOn) of the row is the incoming value when that is non-null, also
\* over a different stored value, and the stored value when the incoming one
\* is null.
C6_LastNonNullWins ==
    [][\A i \in 1..Len(lastBatch') :
          \A column \in {"branch", "modified_on"} :
             LET incoming == lastBatch'[i][column]
                 stored == ColumnOf(commits, lastBatch'[i].hash, column)
             IN ColumnOf(commits', lastBatch'[i].hash, column) =
                    IF incoming # Null THEN {incoming}
                    ELSE IF stored = {} THEN {Null} ELSE stored]_vars

\* An upsert has put its own non-null branch and date over different ones.
C6_Witness ==
    /\ replaced = {"branch", "modified_on"}
    /\ \E i \in 1..Len(lastBatch) :
          /\ ColumnOf(commits, lastBatch[i].hash, "branch") = {lastBatch[i].branch}
          /\ ColumnOf(commits, lastBatch[i].hash, "modified_on") = {lastBatch[i].modified_on}
          /\ lastBatch[i].branch # Null /\ lastBatch[i].modified_on # Null

\* C7: the commit table holds exactly one row for each hash ever given to
\* upsert_many and no other row.
C7_OneRowPerHash ==
    /\ {r.hash : r \in commits} = upserted
    /\ \A h \in upserted : Cardinality({r \in commits : r.hash = h}) = 1

\* The same webhook payload was processed twice in a row, it carries two
\* commits, and the table holds two rows.
C7_Witness ==
    /\ delivery.again
    /\ bbResponse.ingested = 2
    /\ Cardinality(commits) = 2

---------------------------------------------------------------------------
(* verify_signature *)

\* C10 as stated: verify_signature accepts the header exactly when it is the
\* base64 or the hex encoding of the HMAC of the body under the secret.
C10_AcceptsBase64AndHexOnly ==
    (verification.result \in {"accepted", "rejected"} /\ verification.secret # "")
    => LET digest == HmacDigest(verification.secret, verification.body)
           header == HeaderValue(verification.kind, verification.signer,
                                 verification.body)
       IN (verification.result = "accepted")
          <=> (header = B64Encode(digest) \/ header = HexEncode(digest))

---------------------------------------------------------------------------
(* Responses and failures of the Jira webhook (specification Spec) *)

\* The body parses to an event whose type is none of the three issue events.
UnsupportedEvent(b) ==
    /\ b \in DOMAIN Bodies
    /\ Bodies[b].json
    /\ NormalizePayload(Bodies[b].payload, 0).ok
    /\ NormalizePayload(Bodies[b].payload, 0).event_type \notin ALLOWED_EVENTS

\* C11: an authenticated request whose event type is not issue_created,
\* issue_updated or issue_deleted is answered 202 and causes no store write
\* and no recorrelation, on every route: such a request never reaches the
\* apply step, its body is never the origin of an executed write, and its
\* answer is 202.
C11_UnsupportedAcknowledgedAndDropped ==
    /\ \A i \in 1..Len(history) : ~UnsupportedEvent(history[i].body)
    /\ \A p \in Procs :
          UnsupportedEvent(req[p].body) =>
              /\ pc[p] \notin {"apply", "query", "write", "finish", "respond"}
              /\ "recorrelate" \notin {stages[p][i] : i \in 1..Len(stages[p])}
              /\ pc[p] = "done" /\ "parse" \in {stages[p][i] : i \in 1..Len(stages[p])}
                    => response[p] = 202

\* The stages invocation p has entered.
StagesOf(p) == {stages[p][i] : i \in 1..Len(stages[p])}

\* With one invocation at a time: the store has executed the write of p's
\* request and the write changed a row.
WroteRow(p) ==
    /\ result[p].success
    /\ item[p] # NoItem
    /\ history # << >>
    /\ history[Len(history)].write = item[p]
    /\ history[Len(history)].committed

\* The request of p has written its correlation artifact.
ProducedArtifact(p) == "recorrelate" \in StagesOf(p) /\ ~PhoenixTimestampRaises(ev[p])

\* C12: a request that is answered 400 or 500 has left every row of the
\* store as it was before the request and has produced no correlation
\* artifact.
C12_FailedRequestLeavesNoTrace ==
    \A p \in Procs :
        (pc[p] = "done" /\ response[p] \in {400, 500}) =>
            ~WroteRow(p) /\ ~ProducedArtifact(p)

\* With one invocation at a time: the store has rejected the conditional
\* put of p's request (the row exists under another idempotency key).
Rejected(p) ==
    /\ pc[p] \in {"finish", "respond", "done"}
    /\ result[p].success
    /\ item[p].op = "put"
    /\ ~ConditionHolds(table, Stored(item[p]))

\* C13: when the store rejects a conditional put for an idempotency-key
\* mismatch, the put is not retried, the store is unchanged, the apply step
\* reports success, and the request is answered 202.
C13_RejectionIsSuccess ==
    /\ [][\A p \in Procs :
            (pc[p] = "write" /\ history' # history /\ item[p].op = "put"
               /\ ~ConditionHolds(table, Stored(item[p]))) =>
                /\ table' = table
                /\ attempt' = attempt
                /\ pc'[p] = "finish"
                /\ result'[p].success]_vars
    /\ [](\A p \in Procs : (Rejected(p) /\ pc[p] = "done") => response[p] = 202)

\* C16: every POST to the Lambda handler ends with one response, and its
\* status is 202, 400, 401 or 500.
C16_AlwaysADefinitiveStatus ==
    \A p \in Procs :
        (pc[p] = "done" /\ req[p].route = "lambda") =>
            response[p] \in {202, 400, 401, 500}

\* C14: a store write that fails with a transient error is called again
\* after a sleep of base_delay * 2^(attempt-1) and is called at most 5
\* times; another error is raised the first time it occurs, with no sleep
\* and no further call; when the fifth call fails too, or the error is not
\* transient, the request is answered 500.
C14_RetryPolicy ==
    \A p \in Procs :
        LET c == calls[p]
            failed == c # << >> /\ c[Len(c)].outcome # "ok" /\ pc[p] # "write"
        IN /\ Len(c) <= 5
           /\ \A i \in 1..Len(c) :
                 /\ i < Len(c) => c[i].outcome = "transient"
                 /\ (c[i].outcome = "transient" /\ i < 5) =>
                        /\ c[i].slept = 2 ^ (i - 1)
                        /\ i < Len(c) \/ pc[p] = "write"
                 /\ (c[i].outcome = "permanent" \/ i = 5) =>
                        /\ c[i].slept = 0
                        /\ i = Len(c) /\ pc[p] # "write"
                 /\ c[i].outcome = "ok" => i = Len(c) /\ result[p].success
           /\ failed => ~result[p].success /\ result[p].status = 500
           /\ (failed /\ pc[p] = "done") => response[p] = 500

\* C14 witness: a write was called five times, slept 1, 2, 4 and 8 units
\* between the calls, failed the fifth time, and the request was answered
\* 500.
C14_Witness ==
    \E p \in Procs :
        /\ Len(calls[p]) = 5
        /\ \A i \in 1..5 : calls[p][i].outcome = "transient"
        /\ <<calls[p][1].slept, calls[p][2].slept, calls[p][3].slept, calls[p][4].slept>>
              = <<1, 2, 4, 8>>
        /\ pc[p] = "done"
        /\ response[p] = 500

---------------------------------------------------------------------------
(* The idempotency key (specification SpecKeys) *)

\* The delivery and event ids a payload carries.
ExplicitIds(payload) == {payload.ids[i] : i \in 1..4} \ {""}

\* C15: the idempotency key of a delivery is its explicit delivery/event id
\* when it has one; else the changelog id when it has one; else
\* issueKey:timestamp when the payload has a timestamp; else
\* issueKey:updatedAt:eventType.
C15_KeyPriority ==
    (evaluation.fn = "idempotency_key" /\ evaluation.value # "pending") =>
        LET payload == evaluation.payload
        IN IF ExplicitIds(payload) # {}
           THEN evaluation.value \in ExplicitIds(payload)
           ELSE IF payload.changelogId # ""
           THEN evaluation.value = payload.changelogId
           ELSE IF payload.timestamp # NoTime
           THEN evaluation.value = payload.key \o ":" \o ToString(payload.timestamp)
           ELSE evaluation.value =
                    payload.key \o ":" \o ToString(evaluation.updated_at)
                        \o ":" \o payload.webhookEvent

\* C15 witness: a payload that has a changelog id and a timestamp and no
\* delivery or event id got the changelog id as its key.
C15_Witness ==
    /\ evaluation.fn = "idempotency_key"
    /\ ExplicitIds(evaluation.payload) = {}
    /\ evaluation.payload.changelogId = "c9"
    /\ evaluation.payload.timestamp # NoTime
    /\ evaluation.value = "c9"

---------------------------------------------------------------------------
(* The Bitbucket webhook's checks (specification SpecCommits) *)

\* The step is a call of process: the latest delivery is recorded and the
\* clock stands still.
ProcessStep == delivery' # NoDelivery /\ now' = now

\* C17: with a secret configured, process answers 401 and leaves the
\* commit store as it is unless the X-Webhook-Secret header equals the
\* secret exactly; a payload that passes the check and whose event key is
\* unsupported is answered 202 with ok and ignored set, and leaves the
\* commit store as it is.
C17_SecretAndUnsupportedEvents ==
    [][ProcessStep =>
          LET passes == bbSecret = Null \/ delivery'.header = bbSecret
              event_key == ResolveEventKey(BbPayloads[delivery'.payload])
          IN /\ ~passes => /\ bbResponse'.status = 401
                           /\ ~bbResponse'.ok
                           /\ commits' = commits
             /\ passes => bbResponse'.status # 401
             /\ (passes /\ event_key \notin SUPPORTED_EVENTS) =>
                    /\ bbResponse' = [status |-> 202, ok |-> TRUE, ingested |-> 0,
                                      ignored |-> TRUE]
                    /\ commits' = commits]_vars

\* C17 witness: the store holds commits, and a delivery that carried the
\* secret in another case has just been answered 401.
C17_Witness ==
    /\ bbSecret = BbSecret
    /\ commits # {}
    /\ delivery.header = "Super-Secret"
    /\ bbResponse.status = 401

\* The keys findall gives on the upper-cased text, none for no text.
KeysIn(text) == IF text = NoText THEN << >> ELSE FindAll(Upper(text), 1)

\* The position of the first occurrence of key in found.
FirstIndex(found, key) ==
    CHOOSE n \in 1..Len(found) :
        found[n] = key /\ \A m \in 1..(n - 1) : found[m] # key

\* C18: extract_story_keys returns exactly the keys that match
\* [A-Z][A-Z0-9]+-\d+ in the upper-cased message, branch and title, each
\* once, in the order of their first occurrence reading the message first,
\* then the branch, then the title.
C18_KeysInPrecedenceOrder ==
    (evaluation.fn = "extract_story_keys" /\ evaluation.done) =>
        LET c == evaluation.commits[1]
            found == KeysIn(c.message) \o KeysIn(c.branch) \o KeysIn(c.pr_title)
            value == evaluation.value
        IN /\ {value[i] : i \in 1..Len(value)} = {found[i] : i \in 1..Len(found)}
           /\ \A i, j \in 1..Len(value) :
                 i < j => /\ value[i] # value[j]
                          /\ FirstIndex(found, value[i]) < FirstIndex(found, value[j])

\* A message with a lower-case key and a second key, a branch that repeats
\* both, and a title with a third.
C18_Witness ==
    /\ evaluation.fn = "extract_story_keys"
    /\ evaluation.done
    /\ evaluation.commits[1].message = Texts.w1 \o <<" ">> \o Texts.w3
    /\ evaluation.commits[1].branch = Texts.b2
    /\ evaluation.commits[1].pr_title = Texts.t2
    /\ evaluation.value = <<"AB-1", "CD9-20", "IJ-7">>

\* The keys findall gives on the items of a story_keys field, item by item.
RECURSIVE FieldKeys(_)
FieldKeys(raw_keys) ==
    IF raw_keys = << >> THEN << >>
    ELSE KeysIn(Head(raw_keys)) \o FieldKeys(Tail(raw_keys))

\* The keys findall gives on the texts of a commit: the message, or the
\* summary when there is no message, then the branch, then the title.
TextKeys(commit) ==
    KeysIn(IF commit.message \in {NoText, << >>} THEN commit.summary ELSE commit.message)
        \o KeysIn(commit.branch) \o KeysIn(commit.pr_title)

\* value holds exactly the elements of found, each once, in the order of
\* their first occurrence in found.
FirstSeenOrder(value, found) ==
    /\ {value[i] : i \in 1..Len(value)} = {found[i] : i \in 1..Len(found)}
    /\ \A i, j \in 1..Len(value) :
          i < j => /\ value[i] # value[j]
                   /\ FirstIndex(found, value[i]) < FirstIndex(found, value[j])

\* C19 as stated: for a commit with an explicit story_keys field,
\* story_keys_from_commit returns exactly the keys of that field, upper-cased
\* and deduplicated in first-seen order, so none that is only in the
\* message, branch or title.
C19_ExplicitFieldOnly ==
    (evaluation.fn = "story_keys_from_commit" /\ evaluation.done
        /\ evaluation.commits[1].explicit) =>
        FirstSeenOrder(evaluation.value, FieldKeys(evaluation.commits[1].story_keys))

\* C19: for a commit with an explicit story_keys field that holds at least
\* one story key, story_keys_from_commit returns exactly the keys of that
\* field, upper-cased and deduplicated in first-seen order, and none that is
\* only in the message, branch or title; when the field is empty or holds no
\* story key, the keys are those of the message, branch and title, as for a
\* commit without the field.
C19_ExplicitFieldUnlessKeyless ==
    (evaluation.fn = "story_keys_from_commit" /\ evaluation.done
        /\ evaluation.commits[1].explicit) =>
        LET commit == evaluation.commits[1]
        IN IF FieldKeys(commit.story_keys) # << >>
           THEN FirstSeenOrder(evaluation.value, FieldKeys(commit.story_keys))
           ELSE FirstSeenOrder(evaluation.value, TextKeys(commit))

\* A field with one key in both spellings and a second key, on a commit
\* whose message names a third key.
C19_Witness ==
    /\ evaluation.fn = "story_keys_from_commit"
    /\ evaluation.done
    /\ evaluation.commits[1].explicit
    /\ evaluation.commits[1].story_keys = <<Texts.w1, Texts.w2, Texts.t2>>
    /\ evaluation.commits[1].message = Texts.w3
    /\ evaluation.value = <<"AB-1", "IJ-7">>

\* The story keys of every commit of a list, by position.
KeysOfCommits(commit_list) ==
    [j \in 1..Len(commit_list) |-> StoryKeysFromCommit(commit_list[j])]

\* C20: match emits exactly one matched pair (key, commit) for every key of
\* every commit and no other pair, whether or not the key is the key of an
\* issue; a commit is among the orphans if and only if it has no key; no
\* commit is both an orphan and part of a matched pair.
C20_OnePairPerKeyPerCommit ==
    (evaluation.fn = "match" /\ evaluation.done) =>
        LET matched == evaluation.value.matched
            orphans == evaluation.value.orphans
            positions == 1..Len(evaluation.commits)
            keys_of == KeysOfCommits(evaluation.commits)
            pairs == UNION {{[issue_key |-> keys_of[j][i], commit |-> j] :
                                i \in 1..Len(keys_of[j])} : j \in positions}
            orphaned == {orphans[n] : n \in 1..Len(orphans)}
        IN /\ \A pair \in pairs :
                 Cardinality({n \in 1..Len(matched) : matched[n] = pair}) = 1
           /\ \A n \in 1..Len(matched) : matched[n] \in pairs
           /\ orphaned = {j \in positions : keys_of[j] = << >>}
           /\ \A j \in orphaned : \A n \in 1..Len(matched) : matched[n].commit # j

\* One issue, a first commit with that issue's key and a key of no issue, a
\* second commit without a key.
C20_Witness ==
    /\ evaluation.fn = "match"
    /\ evaluation.done
    /\ evaluation.issues = <<"AB-1">>
    /\ Len(evaluation.commits) = 2
    /\ evaluation.value.matched =
           <<[issue_key |-> "AB-1", commit |-> 1], [issue_key |-> "IJ-7", commit |-> 1]>>
    /\ evaluation.value.orphans = <<2>>

\* C21: an issue is among the issues without commits that match returns if
\* and only if its key is among the story keys of no commit of the input.
C21_MissingIffNoCommitHasKey ==
    (evaluation.fn = "match" /\ evaluation.done) =>
        LET missing == evaluation.value.missing
            keys_of == KeysOfCommits(evaluation.commits)
            carried == UNION {{keys_of[j][i] : i \in 1..Len(keys_of[j])} :
                                 j \in 1..Len(keys_of)}
        IN /\ {missing[n] : n \in 1..Len(missing)} =
                  {evaluation.issues[n] : n \in 1..Len(evaluation.issues)} \ carried
           /\ Len(missing) = Cardinality({missing[n] : n \in 1..Len(missing)})

\* Two issues, one of them named by the second commit, the other by no
\* commit.
C21_Witness ==
    /\ evaluation.fn = "match"
    /\ evaluation.done
    /\ evaluation.issues = <<"AB-1", "ZZ-9">>
    /\ Len(evaluation.commits) = 2
    /\ KeysOfCommits(evaluation.commits)[1] = << >>
    /\ KeysOfCommits(evaluation.commits)[2] = <<"AB-1", "GH-4", "IJ-7">>
    /\ evaluation.value.missing = <<"ZZ-9">>

\* C22: the correlation recomputed after an applied Jira webhook reports the
\* touched issue as without commits if and only if no commit in the store
\* has the issue's key among its story keys.
C22_RecomputedFromStoredCommits ==
    (evaluation.fn = "recompute_correlation" /\ evaluation.done) =>
        LET missing == evaluation.value.missing
            keys_of == KeysOfCommits(evaluation.commits)
            carried == UNION {{keys_of[j][i] : i \in 1..Len(keys_of[j])} :
                                 j \in 1..Len(keys_of)}
        IN \A n \in 1..Len(evaluation.issues) :
               (\E m \in 1..Len(missing) : missing[m] = evaluation.issues[n])
                   <=> evaluation.issues[n] \notin carried

\* C23: a fetch that receives a 429 and then a 200 makes two requests with
\* one sleep between them, sleeps at least the Retry-After of the 429, and
\* returns the records of the second response.
C23_RateLimitThenSuccess ==
    LET log == evaluation.log
    IN (evaluation.fn = "fetch" /\ Len(log) >= 2
            /\ log[1].status = 429 /\ log[2].status = 200) =>
           /\ evaluation.pc = "done"
           /\ Len(log) = 2
           /\ Len(evaluation.sleeps) = 1
           /\ log[1].retry_after # << >> => evaluation.sleeps[1] >= log[1].retry_after[1]
           /\ evaluation.outcome = "records"
           /\ evaluation.value = log[2].records

\* A 429 with Retry-After 3, then a page.
C23_Witness ==
    /\ evaluation.fn = "fetch"
    /\ evaluation.pc = "done"
    /\ Len(evaluation.log) = 2
    /\ evaluation.log[1].status = 429
    /\ evaluation.log[1].retry_after = <<3>>
    /\ evaluation.log[2].status = 200
    /\ evaluation.sleeps = <<3>>
    /\ evaluation.value = "r2"

\* C24: a fetch that only receives transient failures (timeout, 429, 5xx)
\* goes on to the fifth request, sleeping after each of the first four, or
\* stops at the first when retries are disabled, and then raises the typed
\* error with the status code, the response snippet and the query; a 4xx
\* other than 429 ends the fetch with the typed error at once, as its only
\* request when it is the first response.
C24_RetriesExhaustedOrPermanent ==
    evaluation.fn = "fetch" =>
        LET log == evaluation.log
            last == log[Len(log)]
            limit == IF evaluation.disabled THEN 1 ELSE 5
            raised == /\ evaluation.pc = "done"
                      /\ evaluation.outcome = "error"
                      /\ evaluation.error = [status_code |-> last.status,
                                             snippet |-> last.text,
                                             context |-> evaluation.query]
        IN /\ (log # << >> /\ \A i \in 1..Len(log) :
                   log[i].status \in {0, 429} \/ log[i].status >= 500) =>
                  /\ Len(log) <= limit
                  /\ Len(log) < limit =>
                         evaluation.pc = "request" /\ Len(evaluation.sleeps) = Len(log)
                  /\ Len(log) = limit =>
                         raised /\ Len(evaluation.sleeps) = limit - 1
           /\ \A i \in 1..Len(log) :
                  (log[i].status \in 400..499 /\ log[i].status # 429) =>
                      /\ i = Len(log)
                      /\ raised
                      /\ Len(evaluation.sleeps) = i - 1

\* Retries enabled: a timeout, a 429 and three 500s, four sleeps, the error
\* of the fifth response.
C24_Witness ==
    /\ evaluation.fn = "fetch"
    /\ ~evaluation.disabled
    /\ evaluation.pc = "done"
    /\ Len(evaluation.log) = 5
    /\ evaluation.log[1].status = 0
    /\ evaluation.log[2].status = 429
    /\ \A i \in 3..5 : evaluation.log[i].status = 500
    /\ Len(evaluation.sleeps) = 4
    /\ evaluation.error = [status_code |-> 500, snippet |-> "server down", context |-> "v1"]

\* C25: a fetch with cache use requested and an entry for the query's
\* fingerprint makes no request and returns the entry, which holds the
\* records of the last successful request for that query; a request is made
\* only when the cache is not asked for or has no entry; every successful
\* request writes its records to the entry of its fingerprint, whether or
\* not the cache was asked for.
C25_CacheHoldsLatestFetch ==
    [][evaluation.fn = "fetch" =>
          LET before == evaluation
              after == evaluation'
              requested == Len(after.log) = Len(before.log) + 1
          IN /\ (after.fetches = before.fetches + 1 /\ after.use_cache
                     /\ before.cache[Fingerprint(after.query)] # "") =>
                    /\ after.pc = "done"
                    /\ after.log = << >>
                    /\ after.outcome = "records"
                    /\ after.value = before.cache[Fingerprint(after.query)]
                    /\ after.value = before.latest[after.query]
                    /\ after.cache = before.cache
             /\ requested =>
                    ~(before.use_cache /\ before.cache[Fingerprint(before.query)] # "")
             /\ (requested /\ after.log[Len(after.log)].status = 200) =>
                    after.cache[Fingerprint(before.query)] =
                        after.log[Len(after.log)].records]_vars

\* A fetch without cache use stored r2 for v1; the next fetch of v1 asks for
\* the cache and gets r2 without a request.
C25_Witness ==
    /\ evaluation.fn = "fetch"
    /\ evaluation.fetches = 2
    /\ evaluation.query = "v1"
    /\ evaluation.use_cache
    /\ evaluation.hit
    /\ evaluation.log = << >>
    /\ evaluation.latest["v1"] = "r2"
    /\ evaluation.value = "r2"

\* C26: on the delete path a transient error of the query for the issue's
\* latest row is retried: the request is failed because of the query only
\* when the query has been attempted five times.
C26_LatestRowLookupRetried ==
    [][\A p \in Procs :
          (pc[p] = "query" /\ pc'[p] = "finish" /\ ~result'[p].success) =>
              attempt[p] = MaxAttempts]_vars

\* C27: when WEBHOOK_SECRET or WEBHOOK_SECRET_ARN is set, a request to the
\* Lambda handler reaches the parse or apply step only with a signature
\* made with the sender's secret (the HMAC of the body in base64 or hex),
\* whatever the secret storage answers.
C27_NoSkipWhenSecretConfigured ==
    \A p \in Procs :
        (req[p].route = "lambda" /\ (config.secret # "" \/ config.arn)
            /\ \E i \in 1..Len(stages[p]) : stages[p][i] \in {"parse", "apply"}) =>
            req[p].sig \in {"b64", "hex"}

\* The table after one delivery has been handled alone, at clock value t.
SerialApply(t, body, clock) ==
    LET event == NormalizePayload(Bodies[body].payload, clock)
    IN IF event.event_type = "jira:issue_deleted"
       THEN Execute(t, TombstoneWrite(event, FetchLatest(t, event.issue_key), clock))
       ELSE Execute(t, UpsertItem(event, clock))

\* The rows of a table without the time at which they were received.
RowsWithoutReceipt(t) ==
    {[issue_key |-> t[k].issue_key, updated_at |-> t[k].updated_at,
      status |-> t[k].status, deleted |-> t[k].deleted,
      last_event_type |-> t[k].last_event_type,
      idempotency_key |-> t[k].idempotency_key] : k \in DOMAIN t}

\* C28: when two deliveries for one issue key have been handled concurrently
\* on an empty table, the rows of the table are those that handling the two
\* deliveries one after the other, in one of the two orders, leaves.
C28_ConcurrentDeliveriesSerializable ==
    (pc["p1"] = "done" /\ pc["p2"] = "done" /\ served = 2
        /\ response["p1"] = 202 /\ response["p2"] = 202) =>
        \E first \in Procs, t1 \in 0..MaxClock, t2 \in 0..MaxClock :
            LET second == CHOOSE p \in Procs : p # first
            IN /\ t1 <= t2
               /\ RowsWithoutReceipt(table) =
                      RowsWithoutReceipt(
                          SerialApply(SerialApply(<< >>, req[first].body, t1),
                                      req[second].body, t2))

\* The timestamp of the delete event behind entry i of the write log: the
\* payload's, or the time the delete was handled when the payload has none.
DeleteEventTime(i) ==
    IF Bodies[history[i].body].payload.timestamp # NoTime
    THEN Bodies[history[i].body].payload.timestamp
    ELSE history[i].write.received_at

\* C29: once a delete delivery for an issue key has been applied, applying
\* a late create/update delivery whose updatedAt precedes the delete
\* event's timestamp never makes the issue's latest row (greatest
\* updatedAt) a row with deleted = false.
C29_LateUpsertNeverResurrects ==
    \A i \in 1..Len(history) :
        LET j == Len(history)
            ik == history[i].write.issue_key
        IN (/\ i < j
            /\ history[i].write.deleted
            /\ history[i].committed
            /\ IsUpsertPut(history[j].write)
            /\ history[j].committed
            /\ history[j].write.issue_key = ik
            /\ history[j].write.updated_at < DeleteEventTime(i)) =>
               table[LatestKey(table, ik)].deleted

\* C30: re-observation never regresses stored commit data.  When a commit
\* stored by a webhook with non-empty storyKeys is upserted again by a scan
\* (whose records carry no story keys), the stored storyKeys remain equal
\* to the webhook-derived keys.
C30_ScanKeepsWebhookStoryKeys ==
    [][\A r \in commits :
          (/\ r.source = "webhook"
           /\ r.story_keys # << >>
           /\ delivery' = NoDelivery
           /\ \E i \in 1..Len(lastBatch') :
                 lastBatch'[i].hash = r.hash /\ lastBatch'[i].source = "scan") =>
              \E r2 \in commits' : r2.hash = r.hash /\ r2.story_keys = r.story_keys]_vars

====
